---- MODULE Spec2Model ----
(***************************************************************************)
(* A model of the template designer of document-editor.jsx: the field      *)
(* extractor (extractFieldsFromJson), the nested lookup (getNestedValue),  *)
(* the template validator (validateTemplate) and the generation handler    *)
(* (handleGenerateDocument).                                               *)
(*                                                                         *)
(* Strings are sequences of atoms.  An atom is either one of the special   *)
(* characters "{", "}", "#", "/", ".", " " or a word: a non-empty piece of *)
(* text holding none of the special characters and no white space.  The    *)
(* words of the model ("a", "b", "x", "model", "constructor", "0", ...)    *)
(* are chosen so that no word is the concatenation of other atoms, so two  *)
(* atom sequences are equal exactly when the JavaScript strings are.       *)
(*                                                                         *)
(* JSON values are records tagged by t: "null", "number", "string",        *)
(* "boolean", "array" (items), "object" (keys: the own keys in             *)
(* Object.keys order, vals).  "undefined" and "function" are the two       *)
(* JavaScript values a property read can add to them.  Own keys of the     *)
(* model's objects are never integer-like, so Object.keys order is the     *)
(* insertion order.                                                        *)
(***************************************************************************)
EXTENDS Integers, Sequences, FiniteSets, TLC

\* ------------------------------------------------------------------ bounds

\* The longest array of an input value.
MaxArrLen == 2
\* The number of chunks (placeholders or other text) of a document text.
MaxChunks == 3

\* ------------------------------------------------------------- JS values

Null == [t |-> "null"]
Undefined == [t |-> "undefined"]
Num == [t |-> "number"]
Str == [t |-> "string"]
Bool == [t |-> "boolean"]
Fn == [t |-> "function"]
Arr(items) == [t |-> "array", items |-> items]
Obj(keys, vals) == [t |-> "object", keys |-> keys, vals |-> vals]
EmptyObj == Obj(<<>>, <<>>)

\* typeof v === "object": null, arrays and objects.
TypeofObject(v) == v.t \in {"null", "array", "object"}

\* Array.isArray(v)
IsArray(v) == v.t = "array"

\* The names every object inherits (Object.prototype); reading one gives a
\* function, and `name in obj` is true for them.
ProtoKeys == {<<"constructor">>}

\* The decimal text of an array index.
Digits == <<"0", "1", "2", "3", "4", "5", "6", "7", "8", "9">>
IndexKey(i) == <<Digits[i + 1]>>

\* Object.keys(v) of an array or an object (v is neither null nor undefined).
ObjectKeys(v) ==
  IF v.t = "array" THEN [i \in 1..Len(v.items) |-> IndexKey(i - 1)]
  ELSE IF v.t = "object" THEN v.keys
  ELSE <<>>

\* Whether v has own property k.
HasOwn(v, k) ==
  \/ v.t = "object" /\ \E i \in 1..Len(v.keys) : v.keys[i] = k
  \/ v.t = "array" /\ \E i \in 1..Len(v.items) : IndexKey(i - 1) = k

\* `k in v` for an object or array v: own or inherited.
In(v, k) == HasOwn(v, k) \/ k \in ProtoKeys

\* v[k] for v neither null nor undefined.
Get(v, k) ==
  IF v.t = "object" /\ HasOwn(v, k)
    THEN v.vals[CHOOSE i \in 1..Len(v.keys) : v.keys[i] = k]
  ELSE IF v.t = "array" /\ HasOwn(v, k)
    THEN v.items[CHOOSE i \in 1..Len(v.items) : IndexKey(i - 1) = k]
  ELSE IF k \in ProtoKeys THEN Fn
  ELSE Undefined

\* ------------------------------------------------------ extractFieldsFromJson

\* "  ".repeat(n)
RECURSIVE Repeat(_, _)
Repeat(s, n) == IF n <= 0 THEN <<>> ELSE s \o Repeat(s, n - 1)

\* One field descriptor pushed on `fields` (the isLoopStart, isLoopEnd,
\* isObjectStart and isObjectEnd flags repeat `type` and are left out).
Field(name, label, placeholder, indentLevel, type) ==
  [name |-> name, label |-> label, placeholder |-> placeholder,
   indentLevel |-> indentLevel, type |-> type]

\* The outcome of a call: it returned `fields`, or it threw a TypeError.
Returned(fields) == [threw |-> FALSE, fields |-> fields]
Threw == [threw |-> TRUE, fields |-> <<>>]

\* `{{${key}}}`, `{{#${key}}}`, `{{/${key}}}`
Braces(prefix, key) == <<"{", "{">> \o prefix \o key \o <<"}", "}">>

\* `${parentPath}.${key}` when parentPath is not the empty string, else key.
CurrentPath(parentPath, key) ==
  IF parentPath # <<>> THEN parentPath \o <<".">> \o key ELSE key

\* The name of a loop-end or object-end descriptor.  (ScopeEndName_Key: a
\* variant that, like the placeholder, is built from the key alone.)
ScopeEndName_Key(key, currentPath) == <<"/">> \o key
ScopeEndName(key, currentPath) == <<"/">> \o currentPath

\* The parent path handed to the fields of a loop's first item.
LoopChildParent(key, currentPath) == key

\* Whether an array gets loop markers: non-empty, and typeof value[0] is
\* "object" (true of null and of arrays too).
IsLoopArray(value) == Len(value.items) > 0 /\ TypeofObject(value.items[1])

RECURSIVE processValue(_, _, _, _), forEachKey(_, _, _, _, _)

\* (forEachKey_Reversed: a variant that visits the keys last to first.)
RECURSIVE forEachKey_Reversed(_, _, _, _, _)
forEachKey_Reversed(obj, i, parentPath, indentLevel, acc) ==
  IF obj.t \in {"null", "undefined"} THEN Threw
  ELSE IF i > Len(ObjectKeys(obj)) THEN Returned(acc)
  ELSE LET k == ObjectKeys(obj)[i]
           r == processValue(Get(obj, k), k, parentPath, indentLevel)
       IN IF r.threw THEN Threw
          ELSE forEachKey_Reversed(obj, i + 1, parentPath, indentLevel, r.fields \o acc)

\* Object.keys(obj).forEach(k => processValue(obj[k], k, parentPath, indentLevel)),
\* from the i-th key on; Object.keys(null) throws.
forEachKey(obj, i, parentPath, indentLevel, acc) ==
  IF obj.t \in {"null", "undefined"} THEN Threw
  ELSE IF i > Len(ObjectKeys(obj)) THEN Returned(acc)
  ELSE LET k == ObjectKeys(obj)[i]
           r == processValue(Get(obj, k), k, parentPath, indentLevel)
       IN IF r.threw THEN Threw
          ELSE forEachKey(obj, i + 1, parentPath, indentLevel, acc \o r.fields)

processValue(value, key, parentPath, indentLevel) ==
  LET currentPath == CurrentPath(parentPath, key)
      indent == Repeat(<<" ", " ">>, indentLevel)
      simple(type) == Returned(<<Field(currentPath, indent \o key,
                                        Braces(<<>>, key), indentLevel, type)>>)
      scope(kind, body) ==
        IF body.threw THEN Threw
        ELSE Returned(
          <<Field(<<"#">> \o currentPath,
                  indent \o key \o <<" ", IF kind = "loop" THEN "(Loop Start)" ELSE "(Object Start)">>,
                  Braces(<<"#">>, key), indentLevel,
                  IF kind = "loop" THEN "loop-start" ELSE "object-start")>>
          \o body.fields \o
          <<Field(ScopeEndName(key, currentPath),
                  indent \o key \o <<" ", IF kind = "loop" THEN "(Loop End)" ELSE "(Object End)">>,
                  Braces(<<"/">>, key), indentLevel,
                  IF kind = "loop" THEN "loop-end" ELSE "object-end")>>)
  IN IF value.t \in {"null", "undefined"} THEN simple("simple")
     ELSE IF IsArray(value) THEN
       IF IsLoopArray(value)
         THEN scope("loop", forEachKey(value.items[1], 1,
                                       LoopChildParent(key, currentPath),
                                       indentLevel + 1, <<>>))
         ELSE simple("array-simple")
     ELSE IF TypeofObject(value)
       THEN scope("object", forEachKey(value, 1, currentPath, indentLevel + 1, <<>>))
     ELSE simple("simple")

\* Object.keys(obj).forEach(key => processValue(obj[key], key, "", 0))
processModel(obj) == forEachKey(obj, 1, <<>>, 0, <<>>)

\* obj.model && typeof obj.model === "object": the `model` wrapper test, for
\* obj neither null nor undefined.  A falsy model is null or a scalar, whose
\* typeof is "object" only for null.
HasModelWrapper(obj) == Get(obj, <<"model">>).t \in {"array", "object"}

extractFieldsFromJson(data) ==
  IF IsArray(data) THEN
    IF IsLoopArray(data) THEN processModel(data.items[1]) ELSE Returned(<<>>)
  ELSE IF TypeofObject(data) /\ data # Null THEN
    IF HasModelWrapper(data) THEN processModel(Get(data, <<"model">>))
    ELSE processModel(data)
  ELSE Returned(<<>>)

\* ------------------------------------------------------------ getNestedValue

\* The outcome of a call that threw a TypeError instead of returning a value.
Thrown == [t |-> "thrown"]

\* path.split("."): the pieces between the "." atoms, from the i-th atom on,
\* `cur` being the piece read so far.
RECURSIVE SplitFrom(_, _, _)
SplitFrom(path, i, cur) ==
  IF i > Len(path) THEN <<cur>>
  ELSE IF path[i] = "." THEN <<cur>> \o SplitFrom(path, i + 1, <<>>)
  ELSE SplitFrom(path, i + 1, Append(cur, path[i]))

Split(path) == SplitFrom(path, 1, <<>>)

\* The for loop over the keys: undefined as soon as `current` is null or
\* undefined before a key is read.
RECURSIVE Descend(_, _, _)
Descend(current, keys, i) ==
  IF i > Len(keys) THEN current
  ELSE IF current.t \in {"null", "undefined"} THEN Undefined
  ELSE Descend(Get(current, keys[i]), keys, i + 1)

\* The object the path is resolved against: obj.model when the wrapper test
\* holds, else obj.  (Unwrap_Never: a variant without the unwrapping.)
Unwrap_Never(obj) == obj
Unwrap(obj) == IF HasModelWrapper(obj) THEN Get(obj, <<"model">>) ELSE obj

\* getNestedValue(obj, path); reading obj.model of null or undefined throws.
getNestedValue(obj, path) ==
  IF obj.t \in {"null", "undefined"} THEN Thrown
  ELSE Descend(Unwrap(obj), Split(path), 1)

\* ---------------------------------------------------------- validateTemplate

\* White space, as String.prototype.trim sees it.
IsSpace(c) == c = " "

\* s.trim()
RECURSIVE TrimLeft(_), TrimRight(_)
TrimLeft(s) == IF s # <<>> /\ IsSpace(Head(s)) THEN TrimLeft(Tail(s)) ELSE s
TrimRight(s) ==
  IF s # <<>> /\ IsSpace(s[Len(s)]) THEN TrimRight(SubSeq(s, 1, Len(s) - 1)) ELSE s
Trim(s) == TrimLeft(TrimRight(s))

\* The first index from i on that holds "}", or Len(text) + 1.
RECURSIVE RunEnd(_, _)
RunEnd(text, i) ==
  IF i > Len(text) \/ text[i] = "}" THEN i ELSE RunEnd(text, i + 1)

\* (MatchesAt_EmptyCapture: the regex with [^}]* in place of [^}]+.)
MatchesAt_EmptyCapture(text, j) ==
  /\ j + 1 <= Len(text) /\ text[j] = "{" /\ text[j + 1] = "{"
  /\ LET e == RunEnd(text, j + 2)
     IN e + 1 <= Len(text) /\ text[e] = "}" /\ text[e + 1] = "}"

\* Whether /\{\{([^}]+)\}\}/ matches at index j: "{{", then the longest run of
\* characters other than "}", at least one, then "}}".  (A shorter run would
\* have to be followed by "}" too, so no backtracking finds another match.)
MatchesAt(text, j) ==
  /\ j + 1 <= Len(text) /\ text[j] = "{" /\ text[j + 1] = "{"
  /\ LET e == RunEnd(text, j + 2)
     IN e > j + 2 /\ e + 1 <= Len(text) /\ text[e] = "}" /\ text[e + 1] = "}"

\* match[1].trim(): the field of the match at j.
FieldOf(captured) == Trim(captured)

\* The while loop of placeholderRegex.exec from index i on (`position` is
\* never read and is left out).
RECURSIVE ScanFrom(_, _)
ScanFrom(text, i) ==
  IF i > Len(text) THEN <<>>
  ELSE IF MatchesAt(text, i)
    THEN LET e == RunEnd(text, i + 2)
         IN <<[full |-> SubSeq(text, i, e + 1),
               field |-> FieldOf(SubSeq(text, i + 2, e - 1))]>>
            \o ScanFrom(text, e + 2)
  ELSE ScanFrom(text, i + 1)

\* The entries of `issues` and `warnings`: the message's template and the
\* values interpolated into it.
Msg(kind, args) == [kind |-> kind, args |-> args]

\* typeof v
TypeOf(v) == IF v.t \in {"null", "array", "object"} THEN "object" ELSE v.t

\* field.startsWith(c), field.substring(1), field.includes(".")
StartsWith(field, c) == field # <<>> /\ field[1] = c
Substring1(field) == IF field = <<>> THEN <<>> ELSE Tail(field)
IncludesDot(field) == \E i \in 1..Len(field) : field[i] = "."

Top(stack) == stack[Len(stack)]
Pop(stack) == SubSeq(stack, 1, Len(stack) - 1)

\* The state of one validateTemplate call between two placeholders.
ValState(ctx, loops, iss, warns, threw) ==
  [contextStack |-> ctx, loopStack |-> loops, issues |-> iss,
   warnings |-> warns, threw |-> threw]

\* What a loop/section start marker pushes as the new context.
\* (ItemContext_Whole: a variant that pushes the array itself.)
ItemContext_Whole(value) == value
ItemContext(value) ==
  IF IsArray(value) THEN (IF Len(value.items) > 0 THEN value.items[1] ELSE EmptyObj)
  ELSE value

\* The branch of a start marker {{#fieldName}}.
OpenScope(st, field) ==
  LET fieldName == Substring1(field)
      currentContext == Top(st.contextStack)
      value == getNestedValue(currentContext, fieldName)
  IN IF value = Thrown THEN [st EXCEPT !.threw = TRUE]
     ELSE IF value = Undefined THEN
       [st EXCEPT !.issues = Append(@, Msg("missing-scope", <<field, fieldName>>)),
                  !.contextStack = Append(@, Undefined),
                  !.loopStack = Append(@, fieldName)]
     ELSE IF IsArray(value) \/ (TypeofObject(value) /\ value # Null) THEN
       [st EXCEPT !.contextStack = Append(@, ItemContext(value)),
                  !.loopStack = Append(@, fieldName)]
     ELSE
       [st EXCEPT !.warnings = Append(@, Msg("not-array-or-object",
                                             <<field, fieldName, <<TypeOf(value)>> >>)),
                  !.contextStack = Append(@, value),
                  !.loopStack = Append(@, fieldName)]

\* (CloseScope_PopOnMismatch: a variant of the end marker's branch that pops
\* after the warning about a mismatched end marker.)
CloseScope_PopOnMismatch(st, field) ==
  LET fieldName == Substring1(field)
  IN IF Len(st.loopStack) = 0 THEN
       [st EXCEPT !.warnings = Append(@, Msg("end-without-start", <<field>>))]
     ELSE IF Top(st.loopStack) # fieldName THEN
       [st EXCEPT !.warnings = Append(@, Msg("end-mismatch",
                                             <<field, Top(st.loopStack)>>)),
                  !.contextStack = Pop(@), !.loopStack = Pop(@)]
     ELSE [st EXCEPT !.contextStack = Pop(@), !.loopStack = Pop(@)]

\* The branch of an end marker {{/fieldName}}.
CloseScope(st, field) ==
  LET fieldName == Substring1(field)
  IN IF Len(st.loopStack) = 0 THEN
       [st EXCEPT !.warnings = Append(@, Msg("end-without-start", <<field>>))]
     ELSE IF Top(st.loopStack) # fieldName THEN
       [st EXCEPT !.warnings = Append(@, Msg("end-mismatch",
                                             <<field, Top(st.loopStack)>>))]
     ELSE [st EXCEPT !.contextStack = Pop(@), !.loopStack = Pop(@)]

\* Whether the plain-field branch finds the field in the current context
\* itself: typeof currentContext === "object", not null, and field in it.
InContext(currentContext, field) ==
  /\ TypeofObject(currentContext) /\ currentContext # Null
  /\ In(currentContext, field)

\* (ResolveField_DottedFallback: a variant in which a dotted field that the
\* current context does not resolve is looked up in the root data too.)
ResolveField_DottedFallback(currentContext, data, field) ==
  IF IncludesDot(field)
    THEN LET value == getNestedValue(currentContext, field)
         IN IF value = Undefined THEN getNestedValue(data, field) ELSE value
  ELSE IF InContext(currentContext, field) THEN Get(currentContext, field)
  ELSE getNestedValue(data, field)

\* The value a plain field resolves to.
ResolveField(currentContext, data, field) ==
  IF IncludesDot(field) THEN getNestedValue(currentContext, field)
  ELSE IF InContext(currentContext, field) THEN Get(currentContext, field)
  ELSE getNestedValue(data, field)

\* (PlainField_NoSkip: a variant of the regular field's branch without the
\* early return for an undefined context.)
PlainField_NoSkip(st, data, field) ==
  LET currentContext == Top(st.contextStack)
      value == ResolveField(currentContext, data, field)
  IN IF value = Thrown THEN [st EXCEPT !.threw = TRUE]
     ELSE IF value = Undefined THEN
       IF Len(st.loopStack) > 0 THEN
         IF TypeofObject(currentContext) /\ currentContext # Null
            /\ ~In(currentContext, field)
           THEN [st EXCEPT !.issues = Append(@, Msg("no-field-in-loop",
                                                    <<field, Top(st.loopStack)>>))]
           ELSE st
       ELSE LET rootValue == getNestedValue(data, field)
            IN IF rootValue = Thrown THEN [st EXCEPT !.threw = TRUE]
               ELSE IF rootValue = Undefined
                 THEN [st EXCEPT !.issues = Append(@, Msg("no-data", <<field>>))]
               ELSE st
     ELSE IF value = Null THEN
       [st EXCEPT !.warnings = Append(@, Msg("null-value", <<field>>))]
     ELSE st

\* The branch of a regular field placeholder.
PlainField(st, data, field) ==
  LET currentContext == Top(st.contextStack)
      value == ResolveField(currentContext, data, field)
  IN IF currentContext = Undefined THEN st
     ELSE IF value = Thrown THEN [st EXCEPT !.threw = TRUE]
     ELSE IF value = Undefined THEN
       IF Len(st.loopStack) > 0 THEN
         IF TypeofObject(currentContext) /\ currentContext # Null
            /\ ~In(currentContext, field)
           THEN [st EXCEPT !.issues = Append(@, Msg("no-field-in-loop",
                                                    <<field, Top(st.loopStack)>>))]
           ELSE st
       ELSE LET rootValue == getNestedValue(data, field)
            IN IF rootValue = Thrown THEN [st EXCEPT !.threw = TRUE]
               ELSE IF rootValue = Undefined
                 THEN [st EXCEPT !.issues = Append(@, Msg("no-data", <<field>>))]
               ELSE st
     ELSE IF value = Null THEN
       [st EXCEPT !.warnings = Append(@, Msg("null-value", <<field>>))]
     ELSE st

\* The body of placeholders.forEach for one placeholder.
ProcessPlaceholder(st, data, field) ==
  IF StartsWith(field, "#") THEN OpenScope(st, field)
  ELSE IF StartsWith(field, "/") THEN CloseScope(st, field)
  ELSE PlainField(st, data, field)

\* (UnclosedWarnings_InnermostFirst: a variant that reports the open loops
\* from the top of the stack down.)
UnclosedWarnings_InnermostFirst(loopStack) ==
  [i \in 1..Len(loopStack) |-> Msg("never-closed", <<loopStack[Len(loopStack) + 1 - i]>>)]

\* loopStack.forEach(loopName => warnings.push(...)) after the scan.
UnclosedWarnings(loopStack) ==
  [i \in 1..Len(loopStack) |-> Msg("never-closed", <<loopStack[i]>>)]

\* The warning of a document without placeholders.
NoPlaceholdersWarning == Msg("no-placeholders", <<>>)

\* placeholders.forEach from the i-th placeholder on; a TypeError ends it.
RECURSIVE ForEachPlaceholder(_, _, _, _)
ForEachPlaceholder(st, data, phs, i) ==
  IF i > Len(phs) \/ st.threw THEN st
  ELSE ForEachPlaceholder(ProcessPlaceholder(st, data, phs[i].field), data, phs, i + 1)

\* The report a call returns, or the fact that it threw.
Report(iss, warns, count) ==
  [threw |-> FALSE, issues |-> iss, warnings |-> warns, placeholderCount |-> count]
ReportThrew == [threw |-> TRUE, issues |-> <<>>, warnings |-> <<>>, placeholderCount |-> 0]

\* validateTemplate(documentText, data) as one call.
validateTemplate(documentText, data) ==
  LET phs == ScanFrom(documentText, 1)
      st == ForEachPlaceholder(ValState(<<data>>, <<>>, <<>>, <<>>, FALSE), data, phs, 1)
  IN IF phs = <<>> THEN Report(<<>>, <<NoPlaceholdersWarning>>, 0)
     ELSE IF st.threw THEN ReportThrew
     ELSE Report(st.issues, st.warnings \o UnclosedWarnings(st.loopStack), Len(phs))

\* ------------------------------------------------------ handleGenerateDocument

\* !v: null is falsy; the scalars of the model stand for truthy ones (a
\* non-zero number, a non-empty string, true), objects and arrays are truthy.
Falsy(v) == v.t \in {"null", "undefined"}

\* Whether the run goes on to the export after the validation: without a
\* prompt when the report has no issues, else on the user's answer to
\* confirm().  (Proceeds_Always: a variant that ignores the answer.)
Proceeds_Always(report, answer) == TRUE
Proceeds(report, answer) == Len(report.issues) = 0 \/ answer = "ok"

\* The check of an exported or populated buffer: present, and byteLength
\* not 0 (a rejected call never reaches it).
\* (NonEmpty_NoLengthCheck: a variant without the byteLength test.)
NonEmpty_NoLengthCheck(buffer) == buffer \in {"buffer", "empty"}
NonEmpty(buffer) == buffer = "buffer"

\* Whether the report makes the handler call confirm().
\* (Prompts_OnWarnings: a variant that prompts for warnings too.)
Prompts_OnWarnings(report) == Len(report.issues) > 0 \/ Len(report.warnings) > 0
Prompts(report) == Len(report.issues) > 0

\* ---------------------------------------------------------------- inputs

\* The scalar and null leaves of a JSON value.
Leaves == {Null, Num, Str, Bool}

\* The own keys of the input objects.
Keys == {<<"a">>, <<"b">>}

\* The elements an array holds after its first one.
TailElems == {Null, Num, Obj(<<<<"a">>>>, <<Num>>)}

\* The sequences over S of length at most n.
SeqsUpTo(S, n) == UNION {[1..m -> S] : m \in 0..n}

\* The arrays of at most MaxArrLen elements whose first element is in V.
ArraysOver(V) ==
  {Arr(<<>>)} \cup
  {Arr(<<f>> \o rest) : f \in V, rest \in SeqsUpTo(TailElems, MaxArrLen - 1)}

\* The objects of at most two keys of K, in either order: one key with a
\* value in V, or a value in V beside a value in W in either position.
ObjectsOver(K, V, W) ==
  {EmptyObj} \cup
  {Obj(<<k>>, <<v>>) : k \in K, v \in V} \cup
  {Obj(<<k[1], k[2]>>, <<v, w>>) :
     k \in {kk \in K \X K : kk[1] # kk[2]}, v \in V, w \in W} \cup
  {Obj(<<k[1], k[2]>>, <<w, v>>) :
     k \in {kk \in K \X K : kk[1] # kk[2]}, v \in V, w \in W}

\* JSON values of nesting depth at most one, and at most two.
Values1 == Leaves \cup ArraysOver(Leaves) \cup ObjectsOver(Keys, Leaves, Leaves)
Values2 == Leaves \cup ArraysOver(Values1) \cup ObjectsOver(Keys, Values1, {Null, Num})

\* v wrapped once more: as the only element of an array, as the value of a
\* key, and as the `model` of a wrapper object (alone, and beside a key).
WrapAll(V) ==
  {Arr(<<v>>) : v \in V} \cup
  {Obj(<<k>>, <<v>>) : k \in Keys \cup {<<"model">>}, v \in V} \cup
  {Obj(<<<<"model">>, <<"a">>>>, <<v, Num>>) : v \in V}

\* Values of depth three: a loop in an object section, an object section in
\* a loop, and a loop in a loop.
DeepData ==
  {Obj(<<<<"a">>>>, <<Obj(<<<<"b">>, <<"a">>>>, <<Arr(<<Obj(<<<<"a">>>>, <<Num>>)>>), Str>>)>>),
   Obj(<<<<"a">>>>, <<Arr(<<Obj(<<<<"b">>>>, <<Obj(<<<<"a">>>>, <<Num>>)>>)>>)>>),
   Obj(<<<<"a">>>>, <<Arr(<<Obj(<<<<"b">>>>, <<Arr(<<Obj(<<<<"a">>>>, <<Null>>)>>)>>)>>)>>)}

\* The object {"a": {"a": [{"b": 1}], "b": 5}}: a section that holds a loop
\* with a field b, and a field b of its own.
LoopBesideField ==
  Obj(<<<<"a">>>>,
      <<Obj(<<<<"a">>, <<"b">>>>, <<Arr(<<Obj(<<<<"b">>>>, <<Num>>)>>), Num>>)>>)

\* The object {"a": "x", "b": {"c": 1}}.
FlatAndSection ==
  Obj(<<<<"a">>, <<"b">>>>, <<Str, Obj(<<<<"c">>>>, <<Num>>)>>)

\* The inputs of the extractor: every value of depth at most two, the
\* values of depth one and two wrapped up to twice more, the deep ones, the
\* object with a flat field beside a section and the one with a loop beside
\* a field.
ExtData ==
  Values2 \cup WrapAll(Values2) \cup WrapAll(WrapAll(Values1)) \cup DeepData
  \cup {FlatAndSection, LoopBesideField}

\* The pieces a document text is made of: placeholders for a plain, a
\* padded, a dotted and an inherited field name and for start and end
\* markers, and a piece of other text: a word, empty braces and a stray brace.
Chunks ==
  {Braces(<<>>, <<"a">>), <<"{", "{", " ", "b", " ", "}", "}">>,
   Braces(<<>>, <<"a", ".", "b">>), Braces(<<>>, <<"constructor">>),
   Braces(<<"#">>, <<"a">>), Braces(<<"#">>, <<"b">>),
   Braces(<<"/">>, <<"a">>), Braces(<<"/">>, <<"b">>),
   <<"x", "{", "{", "}", "}", "{">>}

\* The concatenation of a sequence of chunks.
RECURSIVE Flatten(_)
Flatten(chunks) == IF chunks = <<>> THEN <<>> ELSE Head(chunks) \o Flatten(Tail(chunks))

\* The document texts: at most MaxChunks chunks.
DocTexts == {Flatten(d) : d \in SeqsUpTo(Chunks, MaxChunks)}

\* The objects a loop or section of the validator's data holds.
ValInner ==
  {EmptyObj, Obj(<<<<"b">>>>, <<Num>>), Obj(<<<<"b">>>>, <<Null>>),
   Obj(<<<<"model">>>>, <<Obj(<<<<"b">>>>, <<Num>>)>>)}

\* The values of the root's key a.
ValMid ==
  {Null, Num, Arr(<<>>)} \cup ValInner \cup
  {Arr(<<f>>) : f \in {Null, Obj(<<<<"b">>>>, <<Num>>)}}

\* The data values of the validator: null, a scalar, the empty object,
\* objects with key a, objects with keys a and b, and objects with a `model`
\* (an object, one that has a `model` of its own, or null).
ValData ==
  {Null, Num, EmptyObj} \cup
  {Obj(<<<<"a">>>>, <<m>>) : m \in ValMid} \cup
  {Obj(<<<<"a">>, <<"b">>>>, <<m, l>>) :
     m \in {EmptyObj, Arr(<<Obj(<<<<"b">>>>, <<Null>>)>>)}, l \in {Num, Null}} \cup
  {Obj(<<<<"model">>>>, <<Obj(<<<<"a">>>>, <<Arr(<<Obj(<<<<"b">>>>, <<Num>>)>>)>>)>>),
   Obj(<<<<"model">>, <<"a">>>>,
       <<Obj(<<<<"model">>, <<"a">>>>, <<Obj(<<<<"a">>>>, <<Num>>), Str>>), Null>>),
   Obj(<<<<"model">>, <<"a">>>>, <<Null, Num>>)}

\* The inputs of getNestedValue: objects whose `model` is a value of depth at
\* most one or an object that may itself hold a `model`, alone and beside a
\* key a; and the same values without the wrapper.
LkModels == Values1 \cup ObjectsOver(Keys \cup {<<"model">>}, Values1, {Null, Num})
LkData ==
  LkModels \cup
  {Obj(<<<<"model">>>>, <<v>>) : v \in LkModels} \cup
  {Obj(<<<<"a">>, <<"model">>>>, <<Str, v>>) : v \in LkModels}

\* The paths looked up.
LkPaths ==
  {<<"a">>, <<"b">>, <<"model">>, <<"a", ".", "b">>, <<"model", ".", "a">>,
   <<"a", ".", "0">>, <<"constructor">>, <<>>}

\* The number of chunks of the document in the editor of a generation run.
MaxGenChunks == 2

\* The document texts of the generation runs, and the data source's data:
\* null when no data source is loaded.
GenChunks ==
  {Braces(<<>>, <<"a">>), Braces(<<"#">>, <<"a">>), <<"x", "{", "{", "}", "}", "{">>}
GenTexts == {Flatten(d) : d \in SeqsUpTo(GenChunks, MaxGenChunks)}
GenData ==
  {Null, Num, EmptyObj, Obj(<<<<"a">>>>, <<Num>>), Obj(<<<<"a">>>>, <<Null>>),
   Obj(<<<<"a">>>>, <<Arr(<<Obj(<<<<"a">>>>, <<Num>>)>>)>>)}

\* ----------------------------------------------------------------- state

VARIABLES
  extData,          \* the argument of the extractFieldsFromJson call
  extPc,            \* "call" before the call, then "returned" or "threw"
  extFields,        \* the descriptor sequence the call returned
  valText,          \* validateTemplate's documentText
  valData,          \* validateTemplate's data
  valPc,            \* "scan", "each" (in placeholders.forEach), "returned", "threw"
  placeholders,     \* the placeholders the regex scan found
  valIdx,           \* the index of the next placeholder of the forEach
  contextStack,
  loopStack,
  issues,
  warnings,
  placeholderCount, \* the placeholderCount of the returned report
  lkObj,            \* the object of the getNestedValue calls
  lkPath,           \* the path of the getNestedValue calls
  lkDirect,         \* what getNestedValue(lkObj, lkPath) returned
  lkViaModel,       \* what getNestedValue(lkObj.model, lkPath) returned
  genPc,            \* where the handleGenerateDocument run stands
  genEditor,        \* editorRef.current: "editor", or "none"
  genSystem,        \* docAuthSystemRef.current: "system", or "none"
  genDoc,           \* the editor's current document
  genData,          \* dataSource.data as the handler's closure holds it
  genText,          \* documentText: what the run read from saveDocument
  genValidated,     \* the arguments of the run's validateTemplate call
  genReport,        \* what that call returned
  genAnswer,        \* the answer to confirm(): "none" (not asked), "ok", "cancel"
  genCalls,         \* the external calls of the run, in order
  genPopulateArgs,  \* the data handed to populateDocumentTemplate
  genOutcome,       \* how the run ended: "not-ready", "declined", "failed", "success"
  templateBuffer,   \* what exportDOCX gave: "unset", "buffer", "empty", "reject"
  populatedBuffer,  \* what populateDocumentTemplate gave, likewise
  generatedDocument, \* what importDOCX gave: "unset", "document", "null", "reject"
  isLoading,
  templateFields,   \* the descriptor list of the sidebar
  dataSource,       \* the data source: its type, its data, its config's filename
  showConfigModal,
  dsInit,           \* "loading" until initializeEditor is over, then "ready"
  dsLoads,          \* the loads started by the user, in the order they started
  hdKind,           \* the handler of the run: "upload", "new", "exportJson", ...
  hdPc,             \* where the handler's run stands
  hdEditor,         \* editorRef.current at the click: "editor", or "none"
  hdSystem,         \* docAuthSystemRef.current at the click: "system", or "none"
  hdFile,           \* the picked file's extension, or "none" without a file
  hdHasDoc,         \* whether currentEditor.currentDocument() gives a document
  hdCalls,          \* the SDK calls of the run, in order
  hdSet,            \* whether the run has called setIsLoading(true)
  hdOutcome,        \* how the run ended
  efPc,             \* where initializeEditor stands
  mounted,          \* FALSE once the component has unmounted
  cleanupPerformed, \* the effect's flag
  docAuthInstance,  \* the effect's DocAuth system: "null", "live", "destroyed"
  editorInstance,   \* the effect's editor: "null", "live", "destroyed"
  attached,         \* whether the editor's target is in the container
  initialDocument,  \* the effect's document: "none", "invoice", "plaintext"
  docAuthSystemRef, \* docAuthSystemRef.current: "null", or "set"
  editorRef         \* editorRef.current: "null", or "set"

extVars == <<extData, extPc, extFields>>
valVars == <<valText, valData, valPc, placeholders, valIdx, contextStack,
             loopStack, issues, warnings, placeholderCount>>
lkVars == <<lkObj, lkPath, lkDirect, lkViaModel>>
genVars == <<genPc, genEditor, genSystem, genDoc, genData, genText, genValidated,
             genReport, genAnswer, genCalls, genPopulateArgs, genOutcome,
             templateBuffer, populatedBuffer, generatedDocument, isLoading>>
genRun == <<genPc, genEditor, genSystem, genDoc, genData, genText, genValidated,
            genReport, genAnswer, genCalls, genPopulateArgs, genOutcome,
            templateBuffer, populatedBuffer, generatedDocument>>
genLocals == <<templateBuffer, populatedBuffer, generatedDocument>>
dsVars == <<templateFields, dataSource, showConfigModal, dsInit, dsLoads>>
hdVars == <<hdKind, hdPc, hdEditor, hdSystem, hdFile, hdHasDoc, hdCalls, hdSet, hdOutcome>>
efVars == <<efPc, mounted, cleanupPerformed, docAuthInstance, editorInstance, attached,
            initialDocument, docAuthSystemRef, editorRef>>
vars == <<extVars, valVars, lkVars, genVars, dsVars, hdVars, efVars>>

\* A call that has not been made yet.
Pending == [t |-> "pending"]

\* No extractFieldsFromJson call, no validateTemplate call.
ExtIdle == extData = Null /\ extPc = "idle" /\ extFields = <<>>
ValIdle ==
  /\ valText = <<>> /\ valData = Null /\ valPc = "idle" /\ placeholders = <<>>
  /\ valIdx = 0 /\ contextStack = <<>> /\ loopStack = <<>> /\ issues = <<>>
  /\ warnings = <<>> /\ placeholderCount = 0
LkIdle == lkObj = Null /\ lkPath = <<>> /\ lkDirect = Pending /\ lkViaModel = Pending
\* The editor's current document: none, a template with its text, or the
\* document a generation run put there.
NoDoc == [kind |-> "none", text |-> <<>>]
TemplateDoc(text) == [kind |-> "template", text |-> text]
GeneratedDoc == [kind |-> "generated", text |-> <<>>]

GenRunIdle ==
  /\ genPc = "idle" /\ genEditor = "none" /\ genSystem = "none" /\ genDoc = NoDoc
  /\ genData = Null /\ genText = <<>> /\ genValidated = <<>> /\ genReport = Pending
  /\ genAnswer = "none" /\ genCalls = <<>> /\ genPopulateArgs = <<>>
  /\ genOutcome = "none"
  /\ templateBuffer = "unset" /\ populatedBuffer = "unset" /\ generatedDocument = "unset"
GenIdle == GenRunIdle /\ isLoading = FALSE

\* The data source before any load: useState's initial values.
NoSource == [type |-> "none", data |-> Null, filename |-> ""]
DsIdle ==
  /\ templateFields = <<>> /\ dataSource = NoSource /\ showConfigModal = FALSE
  /\ dsInit = "idle" /\ dsLoads = <<>>

\* No run of the other handlers; the initialization effect is over and the
\* component is mounted.
HdIdle ==
  /\ hdKind = "none" /\ hdPc = "idle" /\ hdEditor = "none" /\ hdSystem = "none"
  /\ hdFile = "none" /\ hdHasDoc = FALSE /\ hdCalls = <<>> /\ hdSet = FALSE
  /\ hdOutcome = "none"
EfIdle ==
  /\ efPc = "idle" /\ mounted = TRUE /\ cleanupPerformed = FALSE
  /\ docAuthInstance = "null" /\ editorInstance = "null" /\ attached = FALSE
  /\ initialDocument = "none" /\ docAuthSystemRef = "null" /\ editorRef = "null"

\* -------------------------------------------------- the extractor's runs

ExtInit ==
  /\ extData \in ExtData
  /\ extPc = "call"
  /\ extFields = <<>>
  /\ ValIdle
  /\ LkIdle
  /\ GenIdle
  /\ DsIdle
  /\ HdIdle
  /\ EfIdle

\* One call of extractFieldsFromJson(extData).
ExtractFields ==
  /\ extPc = "call"
  /\ LET r == extractFieldsFromJson(extData)
     IN /\ extPc' = IF r.threw THEN "threw" ELSE "returned"
        /\ extFields' = r.fields
  /\ UNCHANGED <<extData, valVars, lkVars, genVars, dsVars, hdVars, efVars>>

ExtNext == ExtractFields

SpecExtract == ExtInit /\ [][ExtNext]_vars

\* -------------------------------------------------- the validator's runs

ValInit ==
  /\ valText \in DocTexts
  /\ valData \in ValData
  /\ valPc = "scan"
  /\ placeholders = <<>>
  /\ valIdx = 0
  /\ contextStack = <<>>
  /\ loopStack = <<>>
  /\ issues = <<>>
  /\ warnings = <<>>
  /\ placeholderCount = 0
  /\ ExtIdle
  /\ LkIdle
  /\ GenIdle
  /\ DsIdle
  /\ HdIdle
  /\ EfIdle

\* The regex scan, and the return of a document without placeholders.
ValScan ==
  /\ valPc = "scan"
  /\ placeholders' = ScanFrom(valText, 1)
  /\ IF placeholders' = <<>>
       THEN /\ warnings' = <<NoPlaceholdersWarning>>
            /\ valPc' = "returned"
            /\ UNCHANGED <<valIdx, contextStack>>
       ELSE /\ contextStack' = <<valData>>
            /\ valIdx' = 1
            /\ valPc' = "each"
            /\ UNCHANGED warnings
  /\ UNCHANGED <<valText, valData, loopStack, issues, placeholderCount, extVars, lkVars, genVars, dsVars, hdVars, efVars>>

\* One call of the forEach callback; a TypeError ends validateTemplate.
ValEach ==
  /\ valPc = "each"
  /\ valIdx <= Len(placeholders)
  /\ LET st == ProcessPlaceholder(
                 ValState(contextStack, loopStack, issues, warnings, FALSE),
                 valData, placeholders[valIdx].field)
     IN /\ contextStack' = st.contextStack
        /\ loopStack' = st.loopStack
        /\ issues' = st.issues
        /\ warnings' = st.warnings
        /\ valPc' = IF st.threw THEN "threw" ELSE "each"
  /\ valIdx' = valIdx + 1
  /\ UNCHANGED <<valText, valData, placeholders, placeholderCount, extVars, lkVars, genVars, dsVars, hdVars, efVars>>

\* The end of the forEach: the unclosed loops, and the return of the report.
ValReturn ==
  /\ valPc = "each"
  /\ valIdx > Len(placeholders)
  /\ warnings' = warnings \o UnclosedWarnings(loopStack)
  /\ placeholderCount' = Len(placeholders)
  /\ valPc' = "returned"
  /\ UNCHANGED <<valText, valData, placeholders, valIdx, contextStack,
                 loopStack, issues, extVars, lkVars, genVars, dsVars, hdVars, efVars>>

ValNext == ValScan \/ ValEach \/ ValReturn

SpecValidate == ValInit /\ [][ValNext]_vars

\* ------------------------------------------------- getNestedValue's calls

LkInit ==
  /\ lkObj \in LkData
  /\ lkPath \in LkPaths
  /\ lkDirect = Pending
  /\ lkViaModel = Pending
  /\ ExtIdle
  /\ ValIdle
  /\ GenIdle
  /\ DsIdle
  /\ HdIdle
  /\ EfIdle

\* getNestedValue(lkObj, lkPath)
LookupDirect ==
  /\ lkDirect = Pending
  /\ lkDirect' = getNestedValue(lkObj, lkPath)
  /\ UNCHANGED <<lkObj, lkPath, lkViaModel, extVars, valVars, genVars, dsVars, hdVars, efVars>>

\* getNestedValue(lkObj.model, lkPath), for an lkObj that is not null.
LookupViaModel ==
  /\ lkViaModel = Pending
  /\ lkObj.t \notin {"null", "undefined"}
  /\ lkViaModel' = getNestedValue(Get(lkObj, <<"model">>), lkPath)
  /\ UNCHANGED <<lkObj, lkPath, lkDirect, extVars, valVars, genVars, dsVars, hdVars, efVars>>

LkNext == LookupDirect \/ LookupViaModel

SpecLookup == LkInit /\ [][LkNext]_vars

\* ------------------------------------------- handleGenerateDocument's runs

GenInit ==
  /\ genPc = "ready"
  /\ genEditor \in {"editor", "none"}
  /\ genSystem \in {"system", "none"}
  /\ genDoc \in {NoDoc} \cup {TemplateDoc(t) : t \in GenTexts}
  /\ genData \in GenData
  /\ genText = <<>>
  /\ genValidated = <<>>
  /\ genReport = Pending
  /\ genAnswer = "none"
  /\ genCalls = <<>>
  /\ genPopulateArgs = <<>>
  /\ genOutcome = "none"
  /\ templateBuffer = "unset"
  /\ populatedBuffer = "unset"
  /\ generatedDocument = "unset"
  /\ isLoading = FALSE
  /\ ExtIdle
  /\ ValIdle
  /\ LkIdle
  /\ DsIdle
  /\ HdIdle
  /\ EfIdle

\* The run ends: the catch block or a return, and the finally block.
GenEnds(outcome) ==
  /\ genPc' = "done"
  /\ genOutcome' = outcome
  /\ isLoading' = FALSE

\* The click: the three early returns, setIsLoading(true), currentDocument()
\* and the saveDocument() call.
GenClick ==
  /\ genPc = "ready"
  /\ IF genEditor = "none" \/ genSystem = "none" \/ Falsy(genData)
       THEN /\ genPc' = "done"
            /\ genOutcome' = "not-ready"
            /\ UNCHANGED <<isLoading, genCalls>>
       ELSE IF genDoc = NoDoc
         THEN GenEnds("failed") /\ UNCHANGED genCalls
         ELSE /\ isLoading' = TRUE
              /\ genCalls' = <<"saveDocument">>
              /\ genPc' = "awaitSave"
              /\ UNCHANGED genOutcome
  /\ UNCHANGED <<genEditor, genSystem, genDoc, genData, genText, genValidated,
                 genReport, genAnswer, genPopulateArgs, genLocals, extVars, valVars, lkVars, dsVars, hdVars, efVars>>

\* saveDocument() settles: the text of the sections (the empty string when
\* the saved object has none), and the validateTemplate call on it.
GenSaveSettled ==
  /\ genPc = "awaitSave"
  /\ \E outcome \in {"sections", "no-sections", "reject"} :
       IF outcome = "reject"
         THEN GenEnds("failed")
              /\ UNCHANGED <<genText, genValidated, genReport, genCalls>>
         ELSE LET text == IF outcome = "sections" THEN genDoc.text ELSE <<>>
                  report == validateTemplate(text, genData)
              IN /\ genText' = text
                 /\ genValidated' = <<text, genData>>
                 /\ genReport' = report
                 /\ genCalls' = Append(genCalls, "validateTemplate")
                 /\ IF report.threw THEN GenEnds("failed")
                    ELSE genPc' = "validated" /\ UNCHANGED <<genOutcome, isLoading>>
  /\ UNCHANGED <<genEditor, genSystem, genDoc, genData, genAnswer, genPopulateArgs,
                 genLocals, extVars, valVars, lkVars, dsVars, hdVars, efVars>>

\* After the validation: confirm() when the report asks for it, the return
\* on a declined prompt, else the exportDOCX() call.
GenAfterValidation ==
  /\ genPc = "validated"
  /\ \E answer \in (IF Prompts(genReport) THEN {"ok", "cancel"} ELSE {"none"}) :
       /\ genAnswer' = answer
       /\ IF Proceeds(genReport, answer)
            THEN /\ genCalls' = genCalls
                                \o (IF answer = "none" THEN <<>> ELSE <<"confirm">>)
                                \o <<"exportDOCX">>
                 /\ genPc' = "awaitExport"
                 /\ UNCHANGED <<genOutcome, isLoading>>
            ELSE /\ genCalls' = Append(genCalls, "confirm")
                 /\ GenEnds("declined")
  /\ UNCHANGED <<genEditor, genSystem, genDoc, genData, genText, genValidated,
                 genReport, genPopulateArgs, genLocals, extVars, valVars, lkVars, dsVars, hdVars, efVars>>

\* exportDOCX() settles: an empty buffer or a rejection ends the run, else
\* the handler waits for the viewer SDK.
GenExportSettled ==
  /\ genPc = "awaitExport"
  /\ \E outcome \in {"buffer", "empty", "reject"} :
       /\ templateBuffer' = outcome
       /\ IF NonEmpty(outcome)
            THEN /\ genCalls' = Append(genCalls, "waitForSDK")
                 /\ genPc' = "awaitSDK"
                 /\ UNCHANGED <<genOutcome, isLoading>>
            ELSE GenEnds("failed") /\ UNCHANGED genCalls
  /\ UNCHANGED <<genEditor, genSystem, genDoc, genData, genText, genValidated,
                 genReport, genAnswer, genPopulateArgs,
                 populatedBuffer, generatedDocument,
                 extVars, valVars, lkVars, dsVars, hdVars, efVars>>

\* waitForSDK() settles: without the SDK or without its
\* populateDocumentTemplate the run ends, else the population call is made
\* with the data source's data.
GenSDKSettled ==
  /\ genPc = "awaitSDK"
  /\ \E outcome \in {"sdk", "no-populate", "timeout"} :
       IF outcome = "sdk"
         THEN /\ genCalls' = Append(genCalls, "populateDocumentTemplate")
              /\ genPopulateArgs' = <<genData>>
              /\ genPc' = "awaitPopulate"
              /\ UNCHANGED <<genOutcome, isLoading>>
         ELSE GenEnds("failed") /\ UNCHANGED <<genCalls, genPopulateArgs>>
  /\ UNCHANGED <<genEditor, genSystem, genDoc, genData, genText, genValidated,
                 genReport, genAnswer, genLocals, extVars, valVars, lkVars, dsVars, hdVars, efVars>>

\* populateDocumentTemplate() settles, and importDOCX() is called.
GenPopulateSettled ==
  /\ genPc = "awaitPopulate"
  /\ \E outcome \in {"buffer", "empty", "reject"} :
       /\ populatedBuffer' = outcome
       /\ IF NonEmpty(outcome)
            THEN /\ genCalls' = Append(genCalls, "importDOCX")
                 /\ genPc' = "awaitImport"
                 /\ UNCHANGED <<genOutcome, isLoading>>
            ELSE GenEnds("failed") /\ UNCHANGED genCalls
  /\ UNCHANGED <<genEditor, genSystem, genDoc, genData, genText, genValidated,
                 genReport, genAnswer, genPopulateArgs,
                 templateBuffer, generatedDocument,
                 extVars, valVars, lkVars, dsVars, hdVars, efVars>>

\* importDOCX() settles, and setCurrentDocument() is called.
GenImportSettled ==
  /\ genPc = "awaitImport"
  /\ \E outcome \in {"document", "null", "reject"} :
       /\ generatedDocument' = outcome
       /\ IF outcome = "document"
            THEN /\ genCalls' = Append(genCalls, "setCurrentDocument")
                 /\ genPc' = "awaitSet"
                 /\ UNCHANGED <<genOutcome, isLoading>>
            ELSE GenEnds("failed") /\ UNCHANGED genCalls
  /\ UNCHANGED <<genEditor, genSystem, genDoc, genData, genText, genValidated,
                 genReport, genAnswer, genPopulateArgs,
                 templateBuffer, populatedBuffer,
                 extVars, valVars, lkVars, dsVars, hdVars, efVars>>

\* setCurrentDocument() settles: the editor shows the generated document.
GenSetSettled ==
  /\ genPc = "awaitSet"
  /\ \E outcome \in {"ok", "reject"} :
       IF outcome = "ok"
         THEN GenEnds("success") /\ genDoc' = GeneratedDoc
         ELSE GenEnds("failed") /\ UNCHANGED genDoc
  /\ UNCHANGED <<genEditor, genSystem, genData, genText, genValidated, genReport,
                 genAnswer, genCalls, genPopulateArgs, genLocals, extVars, valVars, lkVars, dsVars, hdVars, efVars>>

GenNext ==
  \/ GenClick
  \/ GenSaveSettled
  \/ GenAfterValidation
  \/ GenExportSettled
  \/ GenSDKSettled
  \/ GenPopulateSettled
  \/ GenImportSettled
  \/ GenSetSettled

SpecGenerate == GenInit /\ [][GenNext]_vars

\* ------------------------------------------------- the data source's loads

\* The number of loads the user starts.
MaxLoads == 2

\* What a load's fetch or file read and JSON parse end with: a JSON value (a
\* scalar, objects, a `model` wrapper, an array of objects, and a value the
\* extractor throws on), or a failure (a network or parse error).
DsFailed == [t |-> "failed"]
DsValues ==
  {Num, Obj(<<<<"a">>>>, <<Num>>), Obj(<<<<"model">>>>, <<Obj(<<<<"b">>>>, <<Str>>)>>),
   Arr(<<Obj(<<<<"b">>>>, <<Num>>), Null>>), Obj(<<<<"a">>>>, <<Arr(<<Null>>)>>)}
DsResults == DsValues \cup {DsFailed}

\* The files of the public folder the prompt offers.
StaticFiles == {"invoice.json", "menu.json"}

\* A load the user started: handleJsonFileChange ("json-file") or
\* loadStaticJson ("json-static"), awaiting its result.
Load(kind, filename, result) ==
  [kind |-> kind, filename |-> filename, result |-> result, status |-> "pending"]

\* templateFields and dataSource after the statements that follow a load's
\* awaits: extractFieldsFromJson, setTemplateFields and setDataSource, or
\* the catch block when the read, the parse or the extraction threw.
\* (AfterLoad_SourceFirst: a variant that sets the data source before the
\* extraction.)
AfterLoad_SourceFirst(kind, filename, result, cur) ==
  IF result = DsFailed THEN cur
  ELSE [fields |-> IF extractFieldsFromJson(result).threw THEN cur.fields
                   ELSE extractFieldsFromJson(result).fields,
        source |-> [type |-> kind, data |-> result, filename |-> filename]]
AfterLoad(kind, filename, result, cur) ==
  IF result = DsFailed THEN cur
  ELSE IF extractFieldsFromJson(result).threw THEN cur
  ELSE [fields |-> extractFieldsFromJson(result).fields,
        source |-> [type |-> kind, data |-> result, filename |-> filename]]

\* Whether a settled load set the state.
Applies(result) == result # DsFailed /\ ~extractFieldsFromJson(result).threw

\* The select of the header fires its change handler for an option other
\* than the one it shows, and is disabled while isLoading.
CanSelect(type) == dsInit = "ready" /\ ~isLoading /\ dataSource.type # type

DsInit ==
  /\ templateFields = <<>>
  /\ dataSource = NoSource
  /\ showConfigModal = FALSE
  /\ dsInit = "loading"
  /\ dsLoads = <<>>
  /\ isLoading = TRUE
  /\ GenRunIdle
  /\ ExtIdle
  /\ ValIdle
  /\ LkIdle
  /\ HdIdle
  /\ EfIdle

\* initializeEditor comes to its end: the default load of invoice.json (its
\* result, a response that is not ok, or an earlier failure of the
\* initialization), then setIsLoading(false).
DsInitSettled ==
  /\ dsInit = "loading"
  /\ \E result \in DsResults :
       LET s == AfterLoad("json-static", "invoice.json", result,
                          [fields |-> templateFields, source |-> dataSource])
       IN templateFields' = s.fields /\ dataSource' = s.source
  /\ dsInit' = "ready"
  /\ isLoading' = FALSE
  /\ UNCHANGED <<showConfigModal, dsLoads, genRun, extVars, valVars, lkVars, hdVars, efVars>>

\* "Upload JSON" and a file picked: handleJsonFileChange starts reading it.
DsUploadStarts ==
  /\ CanSelect("json-file")
  /\ Len(dsLoads) < MaxLoads
  /\ \E result \in DsResults :
       dsLoads' = Append(dsLoads, Load("json-file", "upload.json", result))
  /\ UNCHANGED <<templateFields, dataSource, showConfigModal, dsInit, genVars,
                 extVars, valVars, lkVars, hdVars, efVars>>

\* "Load JSON" and a filename given to the prompt: loadStaticJson starts.
DsStaticStarts ==
  /\ CanSelect("json-static")
  /\ Len(dsLoads) < MaxLoads
  /\ \E filename \in StaticFiles, result \in DsResults :
       dsLoads' = Append(dsLoads, Load("json-static", filename, result))
  /\ UNCHANGED <<templateFields, dataSource, showConfigModal, dsInit, genVars,
                 extVars, valVars, lkVars, hdVars, efVars>>

\* A started load's awaits are over: the rest of its handler runs.
DsLoadSettled ==
  /\ \E i \in 1..Len(dsLoads) :
       /\ dsLoads[i].status = "pending"
       /\ LET l == dsLoads[i]
              s == AfterLoad(l.kind, l.filename, l.result,
                             [fields |-> templateFields, source |-> dataSource])
          IN /\ templateFields' = s.fields
             /\ dataSource' = s.source
             /\ dsLoads' = [dsLoads EXCEPT ![i].status =
                              IF Applies(l.result) THEN "applied" ELSE "failed"]
  /\ UNCHANGED <<showConfigModal, dsInit, genVars, extVars, valVars, lkVars, hdVars, efVars>>

\* "API" or "Database": the configuration modal opens.
DsSelectApiOrDatabase ==
  /\ \E type \in {"api", "database"} : CanSelect(type)
  /\ showConfigModal' = TRUE
  /\ UNCHANGED <<templateFields, dataSource, dsInit, dsLoads, genVars,
                 extVars, valVars, lkVars, hdVars, efVars>>

\* The modal is closed.
DsCloseConfigModal ==
  /\ showConfigModal
  /\ showConfigModal' = FALSE
  /\ UNCHANGED <<templateFields, dataSource, dsInit, dsLoads, genVars,
                 extVars, valVars, lkVars, hdVars, efVars>>

\* "Data Source": the reset to none.
DsSelectNone ==
  /\ CanSelect("none")
  /\ templateFields' = <<>>
  /\ dataSource' = NoSource
  /\ UNCHANGED <<showConfigModal, dsInit, dsLoads, genVars, extVars, valVars, lkVars, hdVars, efVars>>

DsNext ==
  \/ DsInitSettled
  \/ DsUploadStarts
  \/ DsStaticStarts
  \/ DsLoadSettled
  \/ DsSelectApiOrDatabase
  \/ DsCloseConfigModal
  \/ DsSelectNone

SpecData == DsInit /\ [][DsNext]_vars

\* ------------------------------------- from the palette to the validator

\* Whether every array in v holds only objects or only scalars (null among
\* them), at every depth.  (The model's keys are all plain identifiers.)
RECURSIVE Homogeneous(_)
Homogeneous(v) ==
  IF v.t = "array"
    THEN /\ \/ \A i \in 1..Len(v.items) : v.items[i].t = "object"
            \/ \A i \in 1..Len(v.items) : v.items[i].t \notin {"object", "array"}
         /\ \A i \in 1..Len(v.items) : Homogeneous(v.items[i])
  ELSE IF v.t = "object" THEN \A i \in 1..Len(v.vals) : Homogeneous(v.vals[i])
  ELSE TRUE

\* The data sources of the round trip: the JSON objects among the
\* extractor's inputs whose arrays are homogeneous.
AgData == {d \in ExtData : d.t = "object" /\ Homogeneous(d)}

\* The document made by inserting every palette field once, in order:
\* insertTextAtCursor(field.placeholder) for each descriptor.
RECURSIVE InsertAll(_)
InsertAll(fields) ==
  IF fields = <<>> THEN <<>> ELSE Head(fields).placeholder \o InsertAll(Tail(fields))

AgInit ==
  /\ extData \in AgData
  /\ extPc = "call"
  /\ extFields = <<>>
  /\ ValIdle
  /\ LkIdle
  /\ GenIdle
  /\ DsIdle
  /\ HdIdle
  /\ EfIdle

\* Every field of the palette is inserted, and the document is validated
\* against the data the palette was extracted from.
AgInsertFields ==
  /\ extPc = "returned"
  /\ valPc = "idle"
  /\ valText' = InsertAll(extFields)
  /\ valData' = extData
  /\ valPc' = "scan"
  /\ UNCHANGED <<placeholders, valIdx, contextStack, loopStack, issues, warnings,
                 placeholderCount, extVars, lkVars, genVars, dsVars, hdVars, efVars>>

AgNext == ExtractFields \/ AgInsertFields \/ ValScan \/ ValEach \/ ValReturn

SpecAgree == AgInit /\ [][AgNext]_vars

\* ------------------------------------ the handlers that set isLoading

\* The handlers besides handleGenerateDocument that call setIsLoading(true).
HdExports == {"exportJson", "exportPdf", "exportDocx"}
HdKinds == {"upload", "new"} \cup HdExports

\* The extensions of a picked file ("none": no file was picked).
HdFiles == {"none", "docx", "json", "docjson", "other"}

\* The asynchronous SDK call an export handler awaits.
ExportCall(kind) ==
  IF kind = "exportJson" THEN "saveDocument"
  ELSE IF kind = "exportPdf" THEN "exportPDF"
  ELSE "exportDOCX"

HdInit ==
  /\ hdKind \in HdKinds
  /\ hdPc = "ready"
  /\ hdEditor \in {"editor", "none"}
  /\ hdSystem \in {"system", "none"}
  /\ hdFile \in (IF hdKind = "upload" THEN HdFiles ELSE {"none"})
  /\ hdHasDoc \in BOOLEAN
  /\ hdCalls = <<>>
  /\ hdSet = FALSE
  /\ hdOutcome = "none"
  /\ GenIdle
  /\ ExtIdle
  /\ ValIdle
  /\ LkIdle
  /\ DsIdle
  /\ EfIdle

\* (HdEnds_NoFinally: a variant in which a run ends without a finally
\* block.)
HdEnds_NoFinally(outcome) ==
  /\ hdPc' = "done"
  /\ hdOutcome' = outcome
  /\ UNCHANGED isLoading

\* A run ends after setIsLoading(true): a return inside the try block, the
\* catch block or the end of the try block, and then the finally block.
HdEnds(outcome) ==
  /\ hdPc' = "done"
  /\ hdOutcome' = outcome
  /\ isLoading' = FALSE

\* A run returns before its try block.
HdReturnsEarly ==
  /\ hdPc' = "done"
  /\ hdOutcome' = "not-ready"
  /\ UNCHANGED <<isLoading, hdSet, hdCalls>>

\* handleFileChange up to its first await.
HdUploadStarts ==
  /\ hdKind = "upload" /\ hdPc = "ready"
  /\ IF hdFile = "none" \/ hdEditor = "none" \/ hdSystem = "none"
       THEN HdReturnsEarly
       ELSE /\ hdSet' = TRUE
            /\ IF hdFile = "docx"
                 THEN /\ isLoading' = TRUE
                      /\ hdCalls' = <<"importDOCX">>
                      /\ hdPc' = "awaitDocument"
                      /\ UNCHANGED hdOutcome
               ELSE IF hdFile \in {"json", "docjson"}
                 THEN /\ isLoading' = TRUE
                      /\ hdPc' = "awaitText"
                      /\ UNCHANGED <<hdCalls, hdOutcome>>
               ELSE HdEnds("unsupported") /\ UNCHANGED hdCalls
  /\ UNCHANGED <<hdKind, hdEditor, hdSystem, hdFile, hdHasDoc,
                 genRun, extVars, valVars, lkVars, dsVars, efVars>>

\* file.text() settles: an empty text, a text JSON.parse rejects, or a
\* DocJSON handed to loadDocument.
HdTextSettled ==
  /\ hdPc = "awaitText"
  /\ \E outcome \in {"docjson", "empty", "invalid", "reject"} :
       IF outcome = "docjson"
         THEN /\ hdCalls' = Append(hdCalls, "loadDocument")
              /\ hdPc' = "awaitDocument"
              /\ UNCHANGED <<hdOutcome, isLoading>>
         ELSE HdEnds("failed") /\ UNCHANGED hdCalls
  /\ UNCHANGED <<hdKind, hdEditor, hdSystem, hdFile, hdHasDoc, hdSet,
                 genRun, extVars, valVars, lkVars, dsVars, efVars>>

\* handleNewDocument up to its first await.
HdNewStarts ==
  /\ hdKind = "new" /\ hdPc = "ready"
  /\ IF hdEditor = "none" \/ hdSystem = "none"
       THEN HdReturnsEarly
       ELSE /\ hdSet' = TRUE
            /\ isLoading' = TRUE
            /\ hdCalls' = <<"createDocumentFromPlaintext">>
            /\ hdPc' = "awaitDocument"
            /\ UNCHANGED hdOutcome
  /\ UNCHANGED <<hdKind, hdEditor, hdSystem, hdFile, hdHasDoc,
                 genRun, extVars, valVars, lkVars, dsVars, efVars>>

\* importDOCX, loadDocument or createDocumentFromPlaintext settles, and
\* setCurrentDocument is called: handleFileChange throws on a document that
\* is null, handleNewDocument hands it on.
HdDocumentSettled ==
  /\ hdPc = "awaitDocument"
  /\ \E outcome \in {"document", "null", "reject"} :
       IF outcome = "reject" \/ (outcome = "null" /\ hdKind = "upload")
         THEN HdEnds("failed") /\ UNCHANGED hdCalls
         ELSE /\ hdCalls' = Append(hdCalls, "setCurrentDocument")
              /\ hdPc' = IF outcome = "null" THEN "awaitSetNull" ELSE "awaitSet"
              /\ UNCHANGED <<hdOutcome, isLoading>>
  /\ UNCHANGED <<hdKind, hdEditor, hdSystem, hdFile, hdHasDoc, hdSet,
                 genRun, extVars, valVars, lkVars, dsVars, efVars>>

\* setCurrentDocument settles, and extractAndLogText calls saveDocument;
\* on a null document that call throws inside extractAndLogText's own try.
HdSetSettled ==
  /\ hdPc \in {"awaitSet", "awaitSetNull"}
  /\ \E outcome \in {"ok", "reject"} :
       IF outcome = "reject" THEN HdEnds("failed") /\ UNCHANGED hdCalls
       ELSE IF hdPc = "awaitSetNull" THEN HdEnds("success") /\ UNCHANGED hdCalls
       ELSE /\ hdCalls' = Append(hdCalls, "saveDocument")
            /\ hdPc' = "awaitExtract"
            /\ UNCHANGED <<hdOutcome, isLoading>>
  /\ UNCHANGED <<hdKind, hdEditor, hdSystem, hdFile, hdHasDoc, hdSet,
                 genRun, extVars, valVars, lkVars, dsVars, efVars>>

\* extractAndLogText is over (it catches a rejection of saveDocument).
HdExtractSettled ==
  /\ hdPc = "awaitExtract"
  /\ HdEnds("success")
  /\ UNCHANGED <<hdKind, hdEditor, hdSystem, hdFile, hdHasDoc, hdSet, hdCalls,
                 genRun, extVars, valVars, lkVars, dsVars, efVars>>

\* handleExportJson, handleExportPdf, handleExportDocx up to the await.
HdExportStarts ==
  /\ hdKind \in HdExports /\ hdPc = "ready"
  /\ IF hdEditor = "none"
       THEN HdReturnsEarly
       ELSE /\ hdSet' = TRUE
            /\ IF hdHasDoc
                 THEN /\ isLoading' = TRUE
                      /\ hdCalls' = <<"currentDocument", ExportCall(hdKind)>>
                      /\ hdPc' = "awaitExport"
                      /\ UNCHANGED hdOutcome
                 ELSE HdEnds("no-document") /\ hdCalls' = <<"currentDocument">>
  /\ UNCHANGED <<hdKind, hdEditor, hdSystem, hdFile, hdHasDoc,
                 genRun, extVars, valVars, lkVars, dsVars, efVars>>

\* saveDocument, exportPDF or exportDOCX settles: the download, or the
\* error of an empty result or of a rejection.
HdExportSettled ==
  /\ hdPc = "awaitExport"
  /\ \E outcome \in {"data", "empty", "reject"} :
       HdEnds(IF outcome = "data" THEN "success" ELSE "failed")
  /\ UNCHANGED <<hdKind, hdEditor, hdSystem, hdFile, hdHasDoc, hdSet, hdCalls,
                 genRun, extVars, valVars, lkVars, dsVars, efVars>>

HdNext ==
  \/ HdUploadStarts
  \/ HdTextSettled
  \/ HdNewStarts
  \/ HdDocumentSettled
  \/ HdSetSettled
  \/ HdExtractSettled
  \/ HdExportStarts
  \/ HdExportSettled

\* One run of one handler: handleGenerateDocument or one of the others.
HandlersInit == GenInit \/ HdInit
HandlersNext == GenNext \/ HdNext
SpecHandlers == HandlersInit /\ [][HandlersNext]_vars

\* The steps that follow an await or the confirm() dialog, but for the one
\* that follows the await of saveDocument in handleGenerateDocument.
HandlersSettle ==
  \/ GenAfterValidation
  \/ GenExportSettled
  \/ GenSDKSettled
  \/ GenPopulateSettled
  \/ GenImportSettled
  \/ GenSetSettled
  \/ HdTextSettled
  \/ HdDocumentSettled
  \/ HdSetSettled
  \/ HdExtractSettled
  \/ HdExportSettled

\* Every awaited call settles and every dialog is answered; no click is
\* required to happen.  The await of saveDocument settles: GenSaveSettled
\* is enabled exactly while genPc = "awaitSave" and each of its steps leaves
\* that position, so that weak fairness of GenSaveSettled is the last
\* conjunct.
FairHandlers ==
  /\ SpecHandlers
  /\ WF_vars(HandlersSettle)
  /\ []<>(genPc # "awaitSave")

\* ------------------------------------------- the initialization effect

\* The state when the effect runs: the target element is created and
\* initializeEditor() is about to be called.  The header is rendered, its
\* select is disabled while isLoading.
EfInit ==
  /\ efPc = "start"
  /\ mounted = TRUE
  /\ cleanupPerformed = FALSE
  /\ docAuthInstance = "null"
  /\ editorInstance = "null"
  /\ attached = FALSE
  /\ initialDocument = "none"
  /\ docAuthSystemRef = "null"
  /\ editorRef = "null"
  /\ isLoading = TRUE
  /\ GenRunIdle
  /\ templateFields = <<>>
  /\ dataSource = NoSource
  /\ showConfigModal = FALSE
  /\ dsInit = "ready"
  /\ dsLoads = <<>>
  /\ ExtIdle
  /\ ValIdle
  /\ LkIdle
  /\ HdIdle

\* What the other machines hold, which the effect's steps leave alone
\* (bar the data source fields and isLoading).
efOthers == <<genRun, showConfigModal, dsInit, dsLoads, extVars, valVars, lkVars, hdVars>>

\* The catch block of initializeEditor, which ends it: setIsLoading(false)
\* is without effect once the component has unmounted.
EfCaught ==
  /\ efPc' = "done"
  /\ isLoading' = IF mounted THEN FALSE ELSE isLoading

\* initializeEditor up to its first await: without window.DocAuth it ends,
\* else createDocAuthSystem is called.
EfStart ==
  /\ efPc = "start"
  /\ \E docAuth \in BOOLEAN :
       IF docAuth THEN efPc' = "awaitSystem" /\ UNCHANGED isLoading
       ELSE efPc' = "done" /\ isLoading' = IF mounted THEN FALSE ELSE isLoading
  /\ UNCHANGED <<mounted, cleanupPerformed, docAuthInstance, editorInstance, attached,
                 initialDocument, docAuthSystemRef, editorRef,
                 templateFields, dataSource, efOthers>>

\* createDocAuthSystem settles: the instance is kept in docAuthInstance and
\* in the ref, and invoice.docjson is fetched; a rejection is caught.
EfSystemSettled ==
  /\ efPc = "awaitSystem"
  /\ \E outcome \in {"system", "reject"} :
       IF outcome = "system"
         THEN /\ docAuthInstance' = "live"
              /\ docAuthSystemRef' = "set"
              /\ efPc' = "awaitDocFetch"
              /\ UNCHANGED isLoading
         ELSE /\ EfCaught
              /\ UNCHANGED <<docAuthInstance, docAuthSystemRef>>
  /\ UNCHANGED <<mounted, cleanupPerformed, editorInstance, attached,
                 initialDocument, editorRef, templateFields, dataSource, efOthers>>

\* fetch("/invoice.docjson") settles: with an ok response its text is read,
\* else the inner catch block creates the plain text document.
EfDocFetchSettled ==
  /\ efPc = "awaitDocFetch"
  /\ \E outcome \in {"ok", "notOk", "reject"} :
       efPc' = IF outcome = "ok" THEN "awaitDocText" ELSE "awaitPlaintext"
  /\ UNCHANGED <<mounted, cleanupPerformed, docAuthInstance, editorInstance, attached,
                 initialDocument, docAuthSystemRef, editorRef,
                 templateFields, dataSource, isLoading, efOthers>>

\* docResponse.text() settles and JSON.parse runs: loadDocument is called,
\* or the inner catch block creates the plain text document.
EfDocTextSettled ==
  /\ efPc = "awaitDocText"
  /\ \E outcome \in {"parsed", "throw"} :
       efPc' = IF outcome = "parsed" THEN "awaitLoadDocument" ELSE "awaitPlaintext"
  /\ UNCHANGED <<mounted, cleanupPerformed, docAuthInstance, editorInstance, attached,
                 initialDocument, docAuthSystemRef, editorRef,
                 templateFields, dataSource, isLoading, efOthers>>

\* loadDocument settles: createEditor is called with the document, or the
\* inner catch block creates the plain text document.
EfLoadDocumentSettled ==
  /\ efPc = "awaitLoadDocument"
  /\ \E outcome \in {"document", "reject"} :
       IF outcome = "document"
         THEN initialDocument' = "invoice" /\ efPc' = "awaitEditor"
         ELSE efPc' = "awaitPlaintext" /\ UNCHANGED initialDocument
  /\ UNCHANGED <<mounted, cleanupPerformed, docAuthInstance, editorInstance, attached,
                 docAuthSystemRef, editorRef,
                 templateFields, dataSource, isLoading, efOthers>>

\* createDocumentFromPlaintext settles: createEditor is called with the
\* document; its rejection is caught by the outer catch block.
EfPlaintextSettled ==
  /\ efPc = "awaitPlaintext"
  /\ \E outcome \in {"document", "reject"} :
       IF outcome = "document"
         THEN initialDocument' = "plaintext" /\ efPc' = "awaitEditor" /\ UNCHANGED isLoading
         ELSE EfCaught /\ UNCHANGED initialDocument
  /\ UNCHANGED <<mounted, cleanupPerformed, docAuthInstance, editorInstance, attached,
                 docAuthSystemRef, editorRef, templateFields, dataSource, efOthers>>

\* createEditor settles: the instance is kept in editorInstance and
\* invoice.json is fetched; a rejection is caught.
EfEditorSettled ==
  /\ efPc = "awaitEditor"
  /\ \E outcome \in {"editor", "reject"} :
       IF outcome = "editor"
         THEN /\ editorInstance' = "live"
              /\ efPc' = "awaitJsonFetch"
              /\ UNCHANGED isLoading
         ELSE /\ EfCaught
              /\ UNCHANGED editorInstance
  /\ UNCHANGED <<mounted, cleanupPerformed, docAuthInstance, attached,
                 initialDocument, docAuthSystemRef, editorRef,
                 templateFields, dataSource, efOthers>>

\* The statements after the load of the default data: the target is
\* attached unless the cleanup has run (containerRef.current is null once
\* the component has unmounted).
EfAttach ==
  /\ IF ~cleanupPerformed /\ mounted
       THEN attached' = TRUE /\ editorRef' = "set" /\ isLoading' = FALSE
       ELSE UNCHANGED <<attached, editorRef, isLoading>>
  /\ efPc' = "done"

\* fetch("/invoice.json") settles: with an ok response its body is read,
\* else (a warning, or the inner catch block) the target is attached.
EfJsonFetchSettled ==
  /\ efPc = "awaitJsonFetch"
  /\ \E outcome \in {"ok", "notOk", "reject"} :
       IF outcome = "ok"
         THEN efPc' = "awaitJsonBody" /\ UNCHANGED <<attached, editorRef, isLoading>>
         ELSE EfAttach
  /\ UNCHANGED <<mounted, cleanupPerformed, docAuthInstance, editorInstance,
                 initialDocument, docAuthSystemRef,
                 templateFields, dataSource, efOthers>>

\* jsonResponse.json() settles: the fields and the data source are set
\* (state setters, without effect after the unmount), and the target is
\* attached.
EfJsonSettled ==
  /\ efPc = "awaitJsonBody"
  /\ \E result \in DsResults :
       LET s == AfterLoad("json-static", "invoice.json", result,
                          [fields |-> templateFields, source |-> dataSource])
       IN /\ templateFields' = IF mounted THEN s.fields ELSE templateFields
          /\ dataSource' = IF mounted THEN s.source ELSE dataSource
  /\ EfAttach
  /\ UNCHANGED <<mounted, cleanupPerformed, docAuthInstance, editorInstance,
                 initialDocument, docAuthSystemRef, efOthers>>

\* The component unmounts: the cleanup function runs, once, any time after
\* the effect has run.  It removes the target and destroys the instances
\* its variables hold; a null one is skipped.
EfCleanup ==
  /\ mounted
  /\ efPc # "start"
  /\ mounted' = FALSE
  /\ cleanupPerformed' = TRUE
  /\ attached' = FALSE
  /\ editorInstance' = IF editorInstance = "live" THEN "destroyed" ELSE editorInstance
  /\ docAuthInstance' = IF docAuthInstance = "live" THEN "destroyed" ELSE docAuthInstance
  /\ UNCHANGED <<efPc, initialDocument, docAuthSystemRef, editorRef,
                 templateFields, dataSource, isLoading, efOthers>>

\* The steps of initializeEditor.
EfSteps ==
  \/ EfStart
  \/ EfSystemSettled
  \/ EfDocFetchSettled
  \/ EfDocTextSettled
  \/ EfLoadDocumentSettled
  \/ EfPlaintextSettled
  \/ EfEditorSettled
  \/ EfJsonFetchSettled
  \/ EfJsonSettled

\* While the component is mounted the user picks data sources (the select
\* is disabled while isLoading); a load pending at the unmount changes no
\* state any more.
EfUser ==
  /\ mounted
  /\ \/ DsUploadStarts
     \/ DsStaticStarts
     \/ DsLoadSettled
     \/ DsSelectApiOrDatabase
     \/ DsCloseConfigModal
     \/ DsSelectNone

EfNext == EfSteps \/ EfCleanup \/ EfUser

SpecMount == EfInit /\ [][EfNext]_vars

\* Every await of initializeEditor settles; the component need not unmount.
FairMount == SpecMount /\ WF_vars(EfSteps)

\* ================================================================= claims

\* The fields of the placeholders found, in order.
PhFields == [i \in 1..Len(placeholders) |-> placeholders[i].field]

\* Whether a message interpolates the string f.
Mentions(msg, f) == \E i \in 1..Len(msg.args) : msg.args[i] = f

\* C1: validateTemplate never throws: whatever the document text and the
\* data, the call returns a report.  Stated for the data the generate
\* handler can pass, which is never null.
C1_NeverThrows == valData # Null => valPc # "threw"

\* A bracket matcher over a descriptor sequence from index i on: start
\* descriptors push their path and kind, end descriptors must find the same
\* path and kind on top and pop it, and the stack must end empty.
IsStartType(type) == type \in {"loop-start", "object-start"}
IsEndType(type) == type \in {"loop-end", "object-end"}
ScopeKind(type) == IF type \in {"loop-start", "loop-end"} THEN "loop" ELSE "object"
RECURSIVE BracketsMatch(_, _, _)
BracketsMatch(fields, i, stack) ==
  IF i > Len(fields) THEN stack = <<>>
  ELSE LET f == fields[i]
           entry == <<Tail(f.name), ScopeKind(f.type)>>
       IN IF IsStartType(f.type) THEN BracketsMatch(fields, i + 1, Append(stack, entry))
          ELSE IF IsEndType(f.type)
            THEN /\ stack # <<>>
                 /\ Top(stack) = entry
                 /\ BracketsMatch(fields, i + 1, Pop(stack))
          ELSE BracketsMatch(fields, i + 1, stack)

\* C2: the descriptor sequence extractFieldsFromJson returns is a
\* well-nested bracket sequence: the matcher never underflows, every end
\* descriptor has the path and the kind of the start it pops, and the stack
\* is empty at the end.
C2_WellNested == extPc = "returned" => BracketsMatch(extFields, 1, <<>>)

\* C2's case: a returned sequence with a loop nested in an object section.
C2_Witness ==
  /\ extPc = "returned"
  /\ \E i, j \in 1..Len(extFields) :
       /\ i < j
       /\ extFields[i].type = "object-start" /\ extFields[i].indentLevel = 0
       /\ extFields[j].type = "loop-end" /\ extFields[j].indentLevel = 1

\* Both lookups of C3 were made, on an object whose own `model` is an object.
C3_Case ==
  /\ lkObj.t = "object" /\ HasOwn(lkObj, <<"model">>)
  /\ Get(lkObj, <<"model">>).t = "object"
  /\ lkDirect # Pending /\ lkViaModel # Pending

\* C3 as stated: for data with a top-level `model` object and every path x,
\* getNestedValue(data, x) equals getNestedValue(data.model, x).
C3_Transparent == C3_Case => lkDirect = lkViaModel

\* C3 as amended: the two lookups agree when data.model has no `model`
\* object (or array) of its own.
C3_TransparentOneLevel ==
  C3_Case /\ ~HasModelWrapper(Get(lkObj, <<"model">>)) => lkDirect = lkViaModel

\* C3's case: the path names an own key of data whose value differs from the
\* one found in data.model, which is the one both lookups return.
C3_Witness ==
  /\ C3_Case /\ ~HasModelWrapper(Get(lkObj, <<"model">>))
  /\ HasOwn(lkObj, lkPath)
  /\ lkDirect = lkViaModel
  /\ lkDirect \notin {Undefined, Thrown, Get(lkObj, lkPath)}

\* The position of the first call of a service in the run's call log, 0 when
\* it was not called.
CallIndex(name) ==
  IF \E i \in 1..Len(genCalls) : genCalls[i] = name
    THEN CHOOSE i \in 1..Len(genCalls) :
           genCalls[i] = name /\ \A k \in 1..(i - 1) : genCalls[k] # name
    ELSE 0
Called(name) == CallIndex(name) > 0

\* C4: in every run of handleGenerateDocument, populateDocumentTemplate is
\* called only after validateTemplate returned in that run, on the text the
\* run read from the document and on the data the population call is given,
\* and only if the report has no issues or the user answered OK; a declined
\* prompt ends the run with no export and no population call; a report
\* without issues (warnings or not) never prompts, and the run goes on to
\* the export.
C4_ValidationGatesPopulation ==
  /\ Called("populateDocumentTemplate")
     => /\ Called("validateTemplate")
        /\ CallIndex("validateTemplate") < CallIndex("populateDocumentTemplate")
        /\ genReport # Pending /\ ~genReport.threw
        /\ genValidated = <<genText, genData>>
        /\ genPopulateArgs = <<genData>>
        /\ (genReport.issues = <<>> \/ genAnswer = "ok")
  /\ genAnswer = "cancel"
     => /\ genPc = "done"
        /\ ~Called("exportDOCX") /\ ~Called("populateDocumentTemplate")
  /\ (genReport # Pending /\ ~genReport.threw /\ genReport.issues = <<>>)
     => /\ ~Called("confirm") /\ genAnswer \notin {"ok", "cancel"}
        /\ genPc # "validated" => Called("exportDOCX")

\* C4's case: the report had issues, the user answered OK, and the
\* population service was called.
C4_Witness ==
  /\ Called("populateDocumentTemplate")
  /\ genReport # Pending /\ Len(genReport.issues) > 0
  /\ genAnswer = "ok"

\* C4's other cases: a declined prompt, and warnings without issues.
C4_WitnessDeclined == genAnswer = "cancel" /\ genPc = "done"
C4_WitnessWarnings ==
  /\ Called("populateDocumentTemplate")
  /\ genReport # Pending /\ genReport.issues = <<>> /\ Len(genReport.warnings) > 0

\* Whether a field is a regular one: neither a start nor an end marker.
IsPlain(field) == ~StartsWith(field, "#") /\ ~StartsWith(field, "/")

\* The validateTemplate call is over.
ValDone == valPc \in {"returned", "threw"}

\* C5: a document whose only placeholder is a plain undotted field f, and a
\* data object with no own key f at the root or in the unwrapped model:
\* exactly one issue, which mentions f, no warning, placeholderCount 1.
C5_MissingRootField ==
  (/\ ValDone
   /\ Len(placeholders) = 1
   /\ IsPlain(PhFields[1]) /\ ~IncludesDot(PhFields[1])
   /\ valData.t = "object"
   /\ ~HasOwn(valData, PhFields[1]) /\ ~HasOwn(Unwrap(valData), PhFields[1]))
  => /\ valPc = "returned"
     /\ Len(issues) = 1 /\ Mentions(issues[1], PhFields[1])
     /\ warnings = <<>>
     /\ placeholderCount = 1

C7_Case ==
  /\ Len(placeholders) >= 3
  /\ valData.t = "object"
  /\ LET n == Len(placeholders)
         L == Substring1(PhFields[1])
         arr == Get(Unwrap(valData), L)
     IN /\ StartsWith(PhFields[1], "#")
        /\ PhFields[n] = <<"/">> \o L
        /\ HasOwn(Unwrap(valData), L)
        /\ IsArray(arr) /\ Len(arr.items) > 0 /\ arr.items[1].t = "object"
        /\ \A i \in 2..(n - 1) :
             /\ IsPlain(PhFields[i])
             /\ HasOwn(arr.items[1], PhFields[i])
             /\ Get(arr.items[1], PhFields[i]) # Null

\* C7: for such a template, no issue, no warning, and placeholderCount n + 2.
C7_LoopTemplate ==
  ValDone /\ C7_Case
  => /\ valPc = "returned"
     /\ issues = <<>> /\ warnings = <<>>
     /\ placeholderCount = Len(placeholders)

\* C7's case: such a template was validated.
C7_Witness == valPc = "returned" /\ C7_Case /\ placeholderCount >= 3

\* The placeholder grammar, read as a statement about the text: "{{" at i,
\* "}}" at j, and between them at least one character, none of them "}".
HasPlaceholder(text) ==
  \E i, j \in 1..Len(text) :
    /\ i + 2 < j /\ j + 1 <= Len(text)
    /\ text[i] = "{" /\ text[i + 1] = "{" /\ text[j] = "}" /\ text[j + 1] = "}"
    /\ \A k \in (i + 2)..(j - 1) : text[k] # "}"

\* C8: a text with no substring matching the grammar: placeholderCount 0,
\* exactly one warning, no issue, whatever the data, and the context stack
\* is never set up.
C8_NoPlaceholders ==
  valPc # "scan" /\ ~HasPlaceholder(valText)
  => /\ valPc = "returned"
     /\ placeholderCount = 0
     /\ Len(warnings) = 1 /\ issues = <<>>
     /\ contextStack = <<>> /\ loopStack = <<>>

\* C8's case: a text that holds braces but no placeholder, on null data.
C8_Witness ==
  /\ valPc = "returned" /\ ~HasPlaceholder(valText)
  /\ \E i \in 1..Len(valText) : valText[i] = "}"
  /\ valData = Null

\* C9: an array-valued field gets loop-start, the first element's fields and
\* loop-end only when the array is non-empty and its first element is an
\* object; any other array gets exactly one array-simple descriptor.  Stated
\* for a root object whose only key holds the array.
C9_ArrayBranch ==
  (/\ extPc # "call"
   /\ extData.t = "object" /\ Len(extData.keys) = 1
   /\ extData.keys[1] # <<"model">>
   /\ IsArray(extData.vals[1]))
  => LET v == extData.vals[1]
         n == Len(extFields)
     IN /\ extPc = "returned"
        /\ IF Len(v.items) > 0 /\ v.items[1].t = "object"
             THEN /\ n >= 2
                  /\ extFields[1].type = "loop-start"
                  /\ extFields[n].type = "loop-end"
                  /\ \A k \in 1..Len(v.items[1].keys) :
                       \E i \in 2..(n - 1) :
                         extFields[i].placeholder \in
                           {Braces(<<>>, v.items[1].keys[k]),
                            Braces(<<"#">>, v.items[1].keys[k])}
             ELSE n = 1 /\ extFields[1].type = "array-simple"

\* Whether a value is a scalar or null.
IsLeaf(v) == v.t \in {"null", "number", "string", "boolean"}

\* C10: extractFieldsFromJson is total: it returns for every JSON value, and
\* returns the empty sequence for a root that is a scalar, an empty array or
\* an array of scalars and nulls.
C10_Total ==
  /\ extPc # "threw"
  /\ (/\ extPc = "returned"
      /\ \/ IsLeaf(extData)
         \/ IsArray(extData) /\ \A i \in 1..Len(extData.items) : IsLeaf(extData.items[i]))
     => extFields = <<>>

\* The names a traversal gives when every field is named by its full dotted
\* path from the root: the traversal of processValue (same branches, same
\* order), with the path of the enclosing scope handed down at every level.
RECURSIVE FullPathNames(_, _, _), FullPathNamesOfKeys(_, _, _)
FullPathNamesOfKeys(obj, i, parentPath) ==
  IF i > Len(ObjectKeys(obj)) THEN <<>>
  ELSE FullPathNames(Get(obj, ObjectKeys(obj)[i]), ObjectKeys(obj)[i], parentPath)
       \o FullPathNamesOfKeys(obj, i + 1, parentPath)
FullPathNames(value, key, parentPath) ==
  LET path == CurrentPath(parentPath, key)
      scope(body) == <<<<"#">> \o path>> \o body \o <<<<"/">> \o path>>
  IN IF value.t \in {"null", "undefined"} THEN <<path>>
     ELSE IF IsArray(value) THEN
       IF IsLoopArray(value)
         THEN scope(FullPathNamesOfKeys(value.items[1], 1, path))
         ELSE <<path>>
     ELSE IF TypeofObject(value) THEN scope(FullPathNamesOfKeys(value, 1, path))
     ELSE <<path>>

\* The object whose keys are the top-level fields: the first element of a
\* root array, the `model` of a wrapper, or the root object.
SchemaRoot(data) ==
  IF IsArray(data) THEN (IF IsLoopArray(data) THEN data.items[1] ELSE EmptyObj)
  ELSE IF data.t = "object" THEN Unwrap(data)
  ELSE EmptyObj

\* The names of the descriptors returned.
ExtNames == [i \in 1..Len(extFields) |-> extFields[i].name]

\* C11: every descriptor's name is the full dotted path of its field from
\* the data source root (with # or / in front for scope markers), at every
\* nesting depth and for every mix of enclosing objects and arrays.
C11_FullPathNames ==
  extPc = "returned" => ExtNames = FullPathNamesOfKeys(SchemaRoot(extData), 1, <<>>)

\* C12: every descriptor's placeholder is its name between braces:
\* {{name}} for simple and array-simple descriptors, {{#path}} and {{/path}}
\* for scope markers.
C12_PlaceholderFromName ==
  extPc = "returned"
  => \A i \in 1..Len(extFields) :
       extFields[i].placeholder = <<"{", "{">> \o extFields[i].name \o <<"}", "}">>


\* The second of two start markers {{#L}}{{#M}} has just been processed, on
\* a root object without a `model` wrapper whose key L opened a context
\* object (a section, or the first item of a loop).
C13_Scan ==
  /\ valPc \in {"each", "threw"} /\ valIdx = 3
  /\ StartsWith(PhFields[1], "#") /\ StartsWith(PhFields[2], "#")
  /\ valData.t = "object" /\ ~HasModelWrapper(valData)
  /\ HasOwn(valData, Substring1(PhFields[1]))
  /\ ItemContext(Get(valData, Substring1(PhFields[1]))).t = "object"
C13_Context == ItemContext(Get(valData, Substring1(PhFields[1])))

\* The context a start marker opens when its name is looked up in the
\* context object itself, with no `model` unwrapping.
C13_Opened ==
  LET value == Descend(C13_Context, Split(Substring1(PhFields[2])), 1)
  IN IF value = Undefined THEN Undefined ELSE ItemContext(value)

\* C13: the `model` unwrapping applies to the root only: a lookup against a
\* nested context object that has a `model` object property of its own is
\* resolved against the context object, not against its `model`.
C13_NestedContextNotUnwrapped ==
  C13_Scan /\ HasModelWrapper(C13_Context)
  => valPc = "each" /\ Top(contextStack) = C13_Opened

\* C14: in every state of the component, under any interleaving of the
\* default load, uploads, static loads, the selection of api or database and
\* the reset to none, templateFields is extractFieldsFromJson(dataSource.data)
\* (the empty list when no data source is set).
C14_FieldsMatchData ==
  LET r == extractFieldsFromJson(dataSource.data)
  IN /\ ~r.threw
     /\ templateFields = r.fields
     /\ dataSource.type = "none" => dataSource.data = Null /\ templateFields = <<>>

\* C14's case: after a reset, a load that was pending during it set a
\* non-empty list.
C14_Witness ==
  /\ templateFields # <<>>
  /\ dataSource.type = "json-file"
  /\ \E i, j \in 1..Len(dsLoads) :
       i # j /\ dsLoads[i].status = "applied" /\ dsLoads[j].status = "failed"

\* C15: when loads overlap, the result of a superseded load is discarded: a
\* load that settles after a load started later has set the state leaves
\* dataSource and templateFields as they are.
C15_StaleLoadDiscarded ==
  [][\A i \in 1..Len(dsLoads) :
       (/\ dsLoads[i].status = "pending"
        /\ Len(dsLoads') = Len(dsLoads)
        /\ dsLoads'[i].status # "pending"
        /\ \E j \in (i + 1)..Len(dsLoads) : dsLoads[j].status = "applied")
       => UNCHANGED <<templateFields, dataSource>>]_vars

\* The external calls of the run that C16 orders, in the order they were made.
C16_Steps == <<"exportDOCX", "populateDocumentTemplate", "importDOCX", "setCurrentDocument">>
C16_Made == SelectSeq(genCalls, LAMBDA c : \E k \in 1..4 : C16_Steps[k] = c)

\* C16: the external calls of a run are made in the order exportDOCX,
\* populateDocumentTemplate, importDOCX, setCurrentDocument, each at most
\* once and only after the one before it gave a non-empty result; when a step
\* fails or gives an empty result, setCurrentDocument is not called and the
\* editor keeps the template document.
C16_CallOrder ==
  /\ C16_Made = SubSeq(C16_Steps, 1, Len(C16_Made))
  /\ Called("populateDocumentTemplate") => templateBuffer = "buffer"
  /\ Called("importDOCX") => populatedBuffer = "buffer"
  /\ Called("setCurrentDocument") => generatedDocument = "document"
  /\ (\/ templateBuffer \in {"empty", "reject"}
      \/ populatedBuffer \in {"empty", "reject"}
      \/ generatedDocument \in {"null", "reject"}
      \/ (genOutcome = "failed" /\ generatedDocument = "unset"))
     => ~Called("setCurrentDocument") /\ genDoc # GeneratedDoc /\ genPc = "done"
  /\ genOutcome # "success" => genDoc # GeneratedDoc

\* C16's cases: a run that made the four calls and showed the generated
\* document, and a run whose population gave an empty result.
C16_Witness ==
  /\ C16_Made = C16_Steps /\ genOutcome = "success" /\ genDoc = GeneratedDoc
C16_WitnessEmpty ==
  /\ populatedBuffer = "empty" /\ genOutcome = "failed" /\ genDoc.kind = "template"

\* A JSON value with every array cut down to its first element.
RECURSIVE KeepFirst(_)
KeepFirst(v) ==
  IF v.t = "array"
    THEN (IF Len(v.items) = 0 THEN v ELSE Arr(<<KeepFirst(v.items[1])>>))
  ELSE IF v.t = "object"
    THEN Obj(v.keys, [k \in 1..Len(v.keys) |-> KeepFirst(v.vals[k])])
  ELSE v

\* C17: the extractor's output depends only on the first element of each
\* array: an input and the same input without its array elements at index 1
\* and higher give the same outcome and the same descriptor sequence.
C17_FirstElementOnly ==
  extPc # "call"
  => LET r == extractFieldsFromJson(KeepFirst(extData))
     IN (extPc = "threw") = r.threw /\ extFields = r.fields

\* The forEach is about to process a placeholder, and its field.
AtPlaceholder == valPc = "each" /\ valIdx <= Len(placeholders)
CurrentField == PhFields[valIdx]

\* C18: throughout the scan the context stack has one more entry than the
\* loop-name stack and the root data at its bottom; and every start marker
\* pushes exactly one entry on each stack, whatever its target resolves to.
\* Stated for the data the generate handler can pass (not null).
C18_StacksAligned ==
  /\ []((valPc \in {"each", "returned", "threw"} /\ placeholders # <<>>)
        => /\ Len(contextStack) = Len(loopStack) + 1
           /\ contextStack[1] = valData)
  /\ [][(AtPlaceholder /\ StartsWith(CurrentField, "#") /\ valData # Null)
        => /\ valPc' = "each"
           /\ Len(contextStack') = Len(contextStack) + 1
           /\ SubSeq(contextStack', 1, Len(contextStack)) = contextStack
           /\ loopStack' = Append(loopStack, Substring1(CurrentField))]_vars

\* {{#L}}{{/M}}{{f}} has been processed, M other than L, L a
\* section of the root whose f is null, the root having no f.
C19_AfterMismatch ==
  /\ valPc = "each" /\ valIdx = 4
  /\ StartsWith(PhFields[1], "#") /\ StartsWith(PhFields[2], "/")
  /\ Substring1(PhFields[1]) # Substring1(PhFields[2])
  /\ IsPlain(PhFields[3]) /\ ~IncludesDot(PhFields[3])
  /\ valData.t = "object" /\ ~HasOwn(Unwrap(valData), PhFields[3])
  /\ HasOwn(Unwrap(valData), Substring1(PhFields[1]))
  /\ LET ctx == Get(Unwrap(valData), Substring1(PhFields[1]))
     IN ctx.t = "object" /\ HasOwn(ctx, PhFields[3]) /\ Get(ctx, PhFields[3]) = Null

\* C19: an end marker {{/n}} pops both stacks exactly when the loop-name
\* stack is not empty and its top is n; otherwise it adds exactly one warning
\* and leaves both stacks as they are, so that a plain field after a
\* mismatched end marker is still resolved in the inner context.
C19_CloseFrame ==
  /\ [][(AtPlaceholder /\ StartsWith(CurrentField, "/"))
        => /\ valPc' = "each"
           /\ issues' = issues
           /\ IF loopStack # <<>> /\ Top(loopStack) = Substring1(CurrentField)
                THEN /\ contextStack' = Pop(contextStack)
                     /\ loopStack' = Pop(loopStack)
                     /\ warnings' = warnings
                ELSE /\ contextStack' = contextStack
                     /\ loopStack' = loopStack
                     /\ Len(warnings') = Len(warnings) + 1
                     /\ SubSeq(warnings', 1, Len(warnings)) = warnings]_vars
  /\ [](C19_AfterMismatch
        => issues = <<>> /\ warnings[Len(warnings)] = Msg("null-value", <<PhFields[3]>>))

\* C19's case: such a template was processed, with the warning about the
\* mismatched end marker.
C19_Witness ==
  /\ C19_AfterMismatch
  /\ \E i \in 1..Len(warnings) :
       warnings[i] = Msg("end-mismatch", <<PhFields[2], Substring1(PhFields[1])>>)

\* The value a start marker's name resolves to when it is looked up in the
\* top of the context stack as the spec describes the lookup: the `model`
\* unwrapping for the root only, and undefined when the context is null or
\* undefined.
C20_Target ==
  LET top == Top(contextStack)
      path == Split(Substring1(CurrentField))
  IN IF top.t \in {"null", "undefined"} THEN Undefined
     ELSE IF Len(contextStack) = 1 THEN Descend(Unwrap(top), path, 1)
     ELSE Descend(top, path, 1)

\* C20: a start marker {{#n}} resolves n against the top of the context
\* stack only and pushes: undefined, with one issue, when the lookup is
\* undefined; the first element of a non-empty array; an empty object for an
\* empty array; a non-null object itself; a scalar or null itself, with one
\* warning.  It pushes n on the loop-name stack and adds no other issue or
\* warning.  Stated for the data the generate handler can pass (not null).
C20_OpenFrame ==
  [][(AtPlaceholder /\ StartsWith(CurrentField, "#") /\ valData # Null)
     => /\ valPc' = "each"
        /\ loopStack' = Append(loopStack, Substring1(CurrentField))
        /\ contextStack' =
             Append(contextStack,
                    IF IsArray(C20_Target)
                      THEN (IF Len(C20_Target.items) > 0 THEN C20_Target.items[1]
                            ELSE EmptyObj)
                    ELSE C20_Target)
        /\ Len(issues') = Len(issues) + (IF C20_Target = Undefined THEN 1 ELSE 0)
        /\ SubSeq(issues', 1, Len(issues)) = issues
        /\ Len(warnings') = Len(warnings)
             + (IF C20_Target.t \in {"null", "number", "string", "boolean"} THEN 1 ELSE 0)
        /\ SubSeq(warnings', 1, Len(warnings)) = warnings]_vars

\* C21: while the top of the context stack is undefined, a plain field adds
\* no issue and no warning (and changes neither stack, and does not throw);
\* and undefined is pushed only by a start marker that records, in the same
\* step, the issue about its missing target.
C21_UndefinedContextSilent ==
  /\ [][(AtPlaceholder /\ IsPlain(CurrentField) /\ Top(contextStack) = Undefined)
        => /\ valPc' = "each"
           /\ issues' = issues /\ warnings' = warnings
           /\ contextStack' = contextStack /\ loopStack' = loopStack]_vars
  /\ [][(AtPlaceholder /\ valPc' = "each"
         /\ Len(contextStack') > Len(contextStack)
         /\ Top(contextStack') = Undefined)
        => /\ StartsWith(CurrentField, "#")
           /\ issues' = Append(issues, Msg("missing-scope",
                                           <<CurrentField, Substring1(CurrentField)>>))
           /\ warnings' = warnings]_vars

\* C21's case: a plain field has just been processed inside a scope whose
\* target was missing, and the only issue is the one of the start marker.
C21_Witness ==
  /\ valPc = "each" /\ valIdx > 2
  /\ IsPlain(PhFields[valIdx - 1])
  /\ Len(contextStack) > 1 /\ Top(contextStack) = Undefined
  /\ Len(issues) = 1 /\ issues[1].kind = "missing-scope"

\* A plain field is about to be processed inside an open scope whose
\* context is not undefined.
C22_InScope ==
  /\ AtPlaceholder /\ IsPlain(CurrentField)
  /\ loopStack # <<>> /\ Top(contextStack) # Undefined

\* The value of an undotted field at the data root, after the unwrapping of
\* the root's `model`.
C22_RootValue == Descend(Unwrap(valData), <<CurrentField>>, 1)

\* C22: inside an open scope, an undotted plain field that is not a property
\* of the current context but has a value at the data root (after the model
\* unwrapping) adds no issue, and adds one warning exactly when that value
\* is null; a dotted field is looked up in the current context only: when
\* that lookup gives undefined it is reported as missing from the loop items
\* of an object context even if the root data has the path, and it never
\* gets the root's value or the root's null warning.
C22_RootFallback ==
  /\ [][(C22_InScope /\ ~IncludesDot(CurrentField) /\ valData # Null
         /\ ~InContext(Top(contextStack), CurrentField)
         /\ C22_RootValue # Undefined)
        => /\ valPc' = "each"
           /\ issues' = issues
           /\ contextStack' = contextStack /\ loopStack' = loopStack
           /\ warnings' = IF C22_RootValue = Null
                            THEN Append(warnings, Msg("null-value", <<CurrentField>>))
                            ELSE warnings]_vars
  /\ [][(C22_InScope /\ IncludesDot(CurrentField))
        => LET ctx == Top(contextStack)
               value == getNestedValue(ctx, CurrentField)
           IN /\ contextStack' = contextStack /\ loopStack' = loopStack
              /\ IF value = Thrown THEN valPc' = "threw"
                 ELSE /\ valPc' = "each"
                      /\ warnings' = IF value = Null
                                       THEN Append(warnings, Msg("null-value", <<CurrentField>>))
                                       ELSE warnings
                      /\ issues' = IF value = Undefined /\ TypeofObject(ctx) /\ ctx # Null
                                     THEN Append(issues, Msg("no-field-in-loop",
                                                             <<CurrentField, Top(loopStack)>>))
                                     ELSE issues]_vars

\* C22's cases: {{#a}}{{b}} was processed where a's context has no b and the
\* root's b is null (one warning, no issue); and {{#a}}{{a.b}} was processed
\* where the root resolves a.b and a's context does not (one issue).
C22_Witness ==
  /\ valPc = "each" /\ valIdx = 3
  /\ StartsWith(PhFields[1], "#") /\ IsPlain(PhFields[2]) /\ ~IncludesDot(PhFields[2])
  /\ valData.t = "object" /\ Len(contextStack) = 2
  /\ ~InContext(Top(contextStack), PhFields[2])
  /\ Descend(Unwrap(valData), <<PhFields[2]>>, 1) = Null
  /\ issues = <<>> /\ warnings = <<Msg("null-value", <<PhFields[2]>>)>>

C22_WitnessDotted ==
  /\ valPc = "each" /\ valIdx = 3
  /\ StartsWith(PhFields[1], "#") /\ IsPlain(PhFields[2]) /\ IncludesDot(PhFields[2])
  /\ valData.t = "object" /\ Len(contextStack) = 2
  /\ getNestedValue(valData, PhFields[2]) \notin {Undefined, Null, Thrown}
  /\ issues = <<Msg("no-field-in-loop", <<PhFields[2], Substring1(PhFields[1])>>)>>

\* The value a plain field resolves to where a lookup through a null
\* context counts as "not found".
C23_Value ==
  IF IncludesDot(CurrentField) /\ Top(contextStack) = Null THEN Undefined
  ELSE ResolveField(Top(contextStack), valData, CurrentField)

\* C23: a plain field processed while the loop-name stack is not empty and
\* the current context is not undefined, which resolves to undefined and is
\* absent from the current loop item, adds exactly one issue, naming the
\* field and the innermost open loop, and no warning, whatever the context
\* is: an object, the empty object of an empty array, a scalar or null.
C23_MissingInLoop ==
  [][(/\ AtPlaceholder /\ IsPlain(CurrentField)
      /\ loopStack # <<>> /\ Top(contextStack) # Undefined
      /\ C23_Value = Undefined
      /\ ~InContext(Top(contextStack), CurrentField))
     => /\ valPc' = "each"
        /\ issues' = Append(issues, Msg("no-field-in-loop",
                                        <<CurrentField, Top(loopStack)>>))
        /\ warnings' = warnings
        /\ contextStack' = contextStack /\ loopStack' = loopStack]_vars

\* Whether the path of a dotted field, looked up in the context ctx, reaches
\* null or an absent value before its last key.
C24_ThroughNullOrAbsent(ctx, field) ==
  LET keys == Split(field)
  IN \E k \in 1..(Len(keys) - 1) :
       Descend(Unwrap(ctx), SubSeq(keys, 1, k), 1) \in {Null, Undefined}

\* C24: a plain field whose resolved value is null adds exactly one warning
\* and no issue; a dotted field whose path passes through a null or absent
\* intermediate value is treated like an absent key: getNestedValue returns
\* undefined and the field adds exactly one issue and no warning.
C24_NullAndBrokenPath ==
  /\ [][(/\ AtPlaceholder /\ IsPlain(CurrentField)
         /\ Top(contextStack) # Undefined
         /\ ResolveField(Top(contextStack), valData, CurrentField) = Null)
        => /\ valPc' = "each"
           /\ issues' = issues
           /\ warnings' = Append(warnings, Msg("null-value", <<CurrentField>>))]_vars
  /\ [][(/\ AtPlaceholder /\ IsPlain(CurrentField) /\ IncludesDot(CurrentField)
         /\ Top(contextStack) \notin {Undefined, Null}
         /\ C24_ThroughNullOrAbsent(Top(contextStack), CurrentField))
        => /\ getNestedValue(Top(contextStack), CurrentField) = Undefined
           /\ valPc' = "each"
           /\ Len(issues') = Len(issues) + 1
           /\ SubSeq(issues', 1, Len(issues)) = issues
           /\ Mentions(issues'[Len(issues')], CurrentField)
           /\ warnings' = warnings]_vars

\* The start and end markers among the first i placeholders, read as
\* brackets: the names opened and not closed, outermost first, and the
\* number of end markers that named the innermost open name.
RECURSIVE C25_Brackets(_)
C25_Brackets(i) ==
  IF i = 0 THEN [open |-> <<>>, opened |-> 0, matched |-> 0]
  ELSE LET b == C25_Brackets(i - 1)
           f == PhFields[i]
       IN IF StartsWith(f, "#")
            THEN [b EXCEPT !.open = Append(@, Substring1(f)), !.opened = @ + 1]
          ELSE IF StartsWith(f, "/") /\ b.open # <<>> /\ Top(b.open) = Substring1(f)
            THEN [b EXCEPT !.open = Pop(@), !.matched = @ + 1]
          ELSE b

\* C25: when a scan of at least one placeholder is over, the warnings end
\* with exactly one "never closed" warning for each name left on the
\* loop-name stack, outermost first, after every warning of the scan (none
\* of which is a "never closed" one); and their number is the number of
\* start markers minus the number of end markers that matched the top of
\* the stack.
C25_UnclosedReported ==
  (valPc = "returned" /\ placeholders # <<>>)
  => LET n == Len(loopStack)
         w == Len(warnings)
         b == C25_Brackets(Len(placeholders))
     IN /\ n <= w
        /\ \A i \in 1..n : warnings[w - n + i] = Msg("never-closed", <<loopStack[i]>>)
        /\ \A i \in 1..(w - n) : warnings[i].kind # "never-closed"
        /\ n = b.opened - b.matched
        /\ loopStack = b.open

\* C25's case: a scan that produced a warning of its own has returned with
\* two different names left open.
C25_Witness ==
  /\ valPc = "returned"
  /\ Len(loopStack) = 2 /\ loopStack[1] # loopStack[2]
  /\ Len(warnings) = 3 /\ warnings[1].kind # "never-closed"

\* A scan with a matched end marker has returned with a name left open.
C25_WitnessMatched ==
  /\ valPc = "returned"
  /\ Len(loopStack) = 1 /\ C25_Brackets(Len(placeholders)).matched = 1

\* The key a descriptor was made for: its placeholder without the braces
\* and without the # or / of a scope marker.
C26_Key(f) ==
  LET inner == SubSeq(f.placeholder, 3, Len(f.placeholder) - 2)
  IN IF IsStartType(f.type) \/ IsEndType(f.type) THEN Tail(inner) ELSE inner

\* Whether a field's value is an object or an array of objects.
C26_IsScopeValue(v) ==
  \/ v.t = "object"
  \/ (v.t = "array" /\ Len(v.items) > 0 /\ v.items[1].t = "object")

\* Reads extFields from index i on against the keys of obj from the k-th
\* on, at nesting depth `depth`: one block per key, in Object.keys order; a
\* block is one descriptor, or a start marker, the blocks of the value's
\* (or its first element's) keys one level deeper, and the end marker of
\* the same key and kind; an object or array-of-objects value has the
\* second form.  Gives the index after the last block, or 0 on a mismatch.
RECURSIVE C26_Walk(_, _, _, _)
C26_Walk(obj, k, i, depth) ==
  IF k > Len(ObjectKeys(obj)) THEN i
  ELSE IF i > Len(extFields) THEN 0
  ELSE LET key == ObjectKeys(obj)[k]
           v == Get(obj, key)
           f == extFields[i]
       IN IF f.indentLevel # depth \/ C26_Key(f) # key \/ IsEndType(f.type) THEN 0
          ELSE IF IsStartType(f.type) THEN
            IF v.t \notin {"object", "array"} \/ (v.t = "array" /\ v.items = <<>>) THEN 0
            ELSE LET j == C26_Walk(IF IsArray(v) THEN v.items[1] ELSE v, 1, i + 1, depth + 1)
                 IN IF j = 0 \/ j > Len(extFields) THEN 0
                    ELSE IF /\ IsEndType(extFields[j].type)
                            /\ ScopeKind(extFields[j].type) = ScopeKind(f.type)
                            /\ C26_Key(extFields[j]) = key
                            /\ extFields[j].indentLevel = depth
                      THEN C26_Walk(obj, k + 1, j + 1, depth)
                    ELSE 0
          ELSE IF C26_IsScopeValue(v) THEN 0
          ELSE C26_Walk(obj, k + 1, i + 1, depth)

\* The key, type and indentLevel of each descriptor returned.
C26_Shape ==
  [i \in 1..Len(extFields) |->
     <<C26_Key(extFields[i]), extFields[i].type, extFields[i].indentLevel>>]

\* C26: the descriptors are emitted depth-first in Object.keys order: per
\* key one descriptor, or for an object or array-of-objects field its start
\* marker, the descriptors of its descendants, and its end marker; each
\* descriptor's indentLevel is the number of scopes that enclose it; and
\* {a: "x", b: {c: 1}} gives a (simple, 0), #b (object-start, 0),
\* c (simple, 1), /b (object-end, 0).
C26_DepthFirstOrder ==
  extPc = "returned"
  => /\ C26_Walk(SchemaRoot(extData), 1, 1, 0) = Len(extFields) + 1
     /\ extData = FlatAndSection
        => C26_Shape = << <<<<"a">>, "simple", 0>>, <<<<"b">>, "object-start", 0>>,
                          <<<<"c">>, "simple", 1>>, <<<<"b">>, "object-end", 0>> >>

\* C26's case: a returned sequence with a descriptor two scopes deep, behind
\* a sibling of its enclosing scope.
C26_Witness ==
  /\ extPc = "returned"
  /\ \E i \in 1..Len(extFields) :
       /\ extFields[i].indentLevel = 2
       /\ \E j \in 1..(i - 1) : extFields[j].indentLevel = 1 /\ ~IsStartType(extFields[j].type)

\* C27: for a JSON object whose arrays hold only objects or only scalars,
\* the document made of the extracted placeholders in emission order
\* validates against the same data: both calls return, with no issue and no
\* warning about an end marker without a start, a mismatched end marker or
\* an unclosed scope.
C27_ExtractorValidatorAgree ==
  /\ extPc # "threw"
  /\ valPc # "threw"
  /\ (valPc = "returned"
      => /\ issues = <<>>
         /\ \A i \in 1..Len(warnings) :
              warnings[i].kind \notin {"end-without-start", "end-mismatch", "never-closed"})

\* C28: within one result of extractFieldsFromJson the descriptor names are
\* pairwise distinct, so that field.name is a unique list key.
C28_NamesDistinct ==
  extPc = "returned"
  => \A i, j \in 1..Len(extFields) : i # j => extFields[i].name # extFields[j].name

\* C29: every handler run that has set isLoading to true sets it back to
\* false once its external calls have settled: on success, on an error, and
\* on the early returns inside the try block (unsupported file type, no
\* current document, declined prompt); and a run that returns before
\* setIsLoading(true) has made no SDK call.
C29_LoadingReset ==
  /\ [](isLoading => <>(~isLoading))
  /\ []((hdPc = "done" \/ genPc = "done") => ~isLoading)
  /\ []((hdPc = "done" /\ ~hdSet) => hdCalls = <<>>)
  /\ []((genPc = "done" /\ genOutcome = "not-ready") => genCalls = <<>>)

\* C29's case: an upload whose setCurrentDocument was rejected is over.
C29_Witness ==
  /\ hdKind = "upload" /\ hdPc = "done" /\ hdOutcome = "failed"
  /\ hdSet /\ hdCalls = <<"importDOCX", "setCurrentDocument">>
  /\ ~isLoading

\* Early returns inside the try block: an unsupported file type, an export
\* without a current document.
C29_WitnessEarlyReturn ==
  /\ hdPc = "done" /\ hdSet /\ ~isLoading
  /\ hdOutcome \in {"unsupported", "no-document"}

\* C30: once the component has unmounted, the DocAuth system and the editor
\* the effect created are eventually destroyed, whenever the cleanup ran;
\* and no editor is attached to the container after the cleanup.
C30_InstancesDestroyed ==
  /\ [](~mounted => <>[](docAuthInstance # "live" /\ editorInstance # "live"))
  /\ [](cleanupPerformed => ~attached)

====
